---- MODULE Spec2Model ----
(***************************************************************************)
(* Model of tensorflow/python/ops/while_v2.py: while_loop (the forward     *)
(* assembler of a single While op), _WhileGrad (the assembler of the       *)
(* backward While op), the accumulation of intermediates in TensorLists,   *)
(* the capture rule of _WhileBodyGradFuncGraph, and the execution of the   *)
(* two While ops (counter, accumulators) as far as the loop counter and    *)
(* the accumulators are concerned.                                         *)
(*                                                                         *)
(* A tensor is [g, op, out]: output `out` of operation number `op` of      *)
(* graph `g`.  A graph is [inputs, outputs, ops, captures]; `captures` is  *)
(* the ordered dict external tensor -> placeholder of a FuncGraph.         *)
(***************************************************************************)
EXTENDS Integers, Sequences, FiniteSets, TLC

\* ------------------------------------------------------------------ bounds
MaxIters == 2
MaxRequests == 2
MaxAbsent == 1

\* `s if s is not None else -1`: an unknown dimension.
UnknownDim == -1

\* ----------------------------------------------------------- seq helpers
Range(s) == {s[i] : i \in DOMAIN s}

InSeq(x, s) == \E i \in DOMAIN s : s[i] = x

\* list.index(x): position of the first occurrence (0 when absent).
IndexOf(x, s) ==
  IF InSeq(x, s) THEN CHOOSE i \in DOMAIN s : s[i] = x /\ \A j \in 1..(i-1) : s[j] # x
  ELSE 0

RECURSIVE ConcatAll(_)
ConcatAll(ss) == IF ss = <<>> THEN <<>> ELSE Head(ss) \o ConcatAll(Tail(ss))

\* ------------------------------------------------------- tensors and ops
T(g, op, out) == [g |-> g, op |-> op, out |-> out]

NoTensor == T("none", 0, 0)

Shape(dims) == [known |-> TRUE, dims |-> dims]

\* tensor_shape.scalar()
Scalar == Shape(<<>>)

UnknownShape == [known |-> FALSE, dims |-> <<>>]

MkOp(type, ins, dtypes, shape) ==
  [type |-> type, ins |-> ins, dtypes |-> dtypes, shape |-> shape]

EmptyGraph == [inputs |-> <<>>, outputs |-> <<>>, ops |-> <<>>, captures |-> <<>>]

\* _WhileBodyGradFuncGraph.__init__: a FuncGraph with three dicts, each an
\* ordered list of [k, v].
EmptyGradGraph ==
  [inputs |-> <<>>, outputs |-> <<>>, ops |-> <<>>, captures |-> <<>>,
   popped_tensor_lists |-> <<>>, indirect_captures |-> <<>>,
   inner_to_outer_tensor |-> <<>>]

\* Graph.create_op: the new operation is the last of get_operations().
AddOp(graph, op) == [graph EXCEPT !.ops = Append(graph.ops, op)]

LastOp(gname, graph) == T(gname, Len(graph.ops), 1)

external_captures(graph) == [i \in DOMAIN graph.captures |-> graph.captures[i].ext]

internal_captures(graph) == [i \in DOMAIN graph.captures |-> graph.captures[i].int]

DtypeOf(ops, t) == ops[t.op].dtypes[t.out]

ShapeOf(ops, t) == ops[t.op].shape

\* ------------------------------------------------------------------ nest
\* A (possibly nested) structure: a leaf holds a tensor (for a TensorArray: its
\* flow, with its handle beside it), a sequence holds items.
Leaf(kind, t, handle) ==
  [seq |-> FALSE, kind |-> kind, t |-> t, handle |-> handle, items |-> <<>>]

List(items) ==
  [seq |-> TRUE, kind |-> "list", t |-> NoTensor, handle |-> NoTensor, items |-> items]

TensorLeaf(t) == Leaf("tensor", t, NoTensor)

\* nest.is_sequence
is_sequence(node) == node.seq

\* nest.flatten: the leaves, left to right.
RECURSIVE flatten(_)
flatten(node) ==
  IF ~node.seq THEN <<node>>
  ELSE ConcatAll([i \in DOMAIN node.items |-> flatten(node.items[i])])

\* nest.assert_same_structure: same nesting, leaf for leaf.
RECURSIVE same_structure(_, _)
same_structure(a, b) ==
  /\ a.seq = b.seq
  /\ a.seq => /\ Len(a.items) = Len(b.items)
              /\ \A i \in DOMAIN a.items : same_structure(a.items[i], b.items[i])

\* nest.pack_sequence_as(structure, flat): flat's leaves in structure's nesting.
RECURSIVE PackHelper(_, _)
RECURSIVE PackItems(_, _)
PackHelper(structure, flat) ==
  IF ~structure.seq THEN [node |-> Head(flat), rest |-> Tail(flat)]
  ELSE LET r == PackItems(structure.items, flat)
       IN [node |-> List(r.items), rest |-> r.rest]

PackItems(items, flat) ==
  IF items = <<>> THEN [items |-> <<>>, rest |-> flat]
  ELSE LET h == PackHelper(Head(items), flat)
           t == PackItems(Tail(items), h.rest)
       IN [items |-> <<h.node>> \o t.items, rest |-> t.rest]

pack_sequence_as(structure, flat) == PackHelper(structure, flat).node

\* _pack_sequence_as: like nest.pack_sequence_as, and a flow whose place in
\* structure_with_tas holds a TensorArray becomes a TensorArray again (same
\* handle, new flow).
flow_to_tensor_array(flow, ta) ==
  IF ta.kind = "ta" THEN Leaf("ta", flow.t, ta.handle) ELSE flow

PackSequenceAs(structure_with_tas, loop_vars) ==
  LET fs == flatten(structure_with_tas)
      flattened_loop_vars ==
        [i \in 1..(IF Len(loop_vars) < Len(fs) THEN Len(loop_vars) ELSE Len(fs)) |->
           flow_to_tensor_array(loop_vars[i], fs[i])]
  IN pack_sequence_as(structure_with_tas, flattened_loop_vars)

\* _tensor_array_to_flow: every TensorArray replaced by its flow tensor.
RECURSIVE tensor_array_to_flow(_)
tensor_array_to_flow(node) ==
  IF ~node.seq THEN TensorLeaf(node.t)
  ELSE List([i \in DOMAIN node.items |-> tensor_array_to_flow(node.items[i])])

\* The tensors of a flat list of leaves.
Tensors(leaves) == [i \in DOMAIN leaves |-> leaves[i].t]

\* ------------------------------------------------------------- FuncGraph
AddInput(g1, gname) == [g1 EXCEPT !.inputs = Append(@, LastOp(gname, g1))]

AddOutput(graph, t) == [graph EXCEPT !.outputs = Append(@, t)]

AddLastOutput(g1, gname) == AddOutput(g1, LastOp(gname, g1))

\* A new placeholder, appended to the graph's inputs.
NewPlaceholder(graph, gname, dtype, shape) ==
  AddInput(AddOp(graph, MkOp("Placeholder", <<>>, <<dtype>>, shape)), gname)

Captured(g1, gname, tensor) ==
  [graph |-> [g1 EXCEPT !.captures = Append(@, [ext |-> tensor, int |-> LastOp(gname, g1)])],
   t |-> LastOp(gname, g1)]

\* FuncGraph._capture_helper: the placeholder of an external tensor, created
\* (and appended to the graph's inputs and captures) on its first capture.
CaptureHelper(graph, gname, src_ops, tensor) ==
  IF InSeq(tensor, external_captures(graph))
  THEN [graph |-> graph,
        t |-> graph.captures[IndexOf(tensor, external_captures(graph))].int]
  ELSE Captured(NewPlaceholder(graph, gname, DtypeOf(src_ops, tensor),
                               ShapeOf(src_ops, tensor)), gname, tensor)

\* FuncGraph.capture: a tensor of the graph itself is returned as it is.
Capture(graph, gname, src_ops, tensor) ==
  IF tensor.g = gname THEN [graph |-> graph, t |-> tensor]
  ELSE CaptureHelper(graph, gname, src_ops, tensor)

CaptureNext(acc, c) == [graph |-> c.graph, ts |-> Append(acc.ts, c.t)]

\* capture() of each tensor in turn: the graph and the placeholders.
RECURSIVE CaptureSeq(_, _, _, _)
CaptureSeq(acc, gname, src_ops, tensors) ==
  IF Len(acc.ts) = Len(tensors) THEN acc
  ELSE CaptureSeq(CaptureNext(acc, Capture(acc.graph, gname, src_ops,
                                           tensors[Len(acc.ts) + 1])),
                  gname, src_ops, tensors)

CaptureAll(graph, gname, src_ops, tensors) ==
  CaptureSeq([graph |-> graph, ts |-> <<>>], gname, src_ops, tensors)

\* func_graph_from_py_func, first half: one placeholder per flattened argument,
\* with the dtype of the argument and the shape of the signature.
ArgPlaceholders(graph, gname, src_ops, args, shapes) ==
  [graph EXCEPT
     !.ops = @ \o [i \in DOMAIN args |->
                     MkOp("Placeholder", <<>>, <<DtypeOf(src_ops, args[i])>>, shapes[i])],
     !.inputs = @ \o [i \in DOMAIN args |-> T(gname, Len(graph.ops) + i, 1)]]

IdentityOf(ops, t) == MkOp("Identity", <<t>>, <<DtypeOf(ops, t)>>, ShapeOf(ops, t))

\* AutomaticControlDependencies.mark_as_return: with add_control_dependencies
\* a returned tensor is wrapped in an Identity.
MarkAsReturn(c, gname, acd) ==
  IF acd THEN AddLastOutput(AddOp(c.graph, IdentityOf(c.graph.ops, c.t)), gname)
  ELSE AddOutput(c.graph, c.t)

\* func_graph_from_py_func, second half: each returned tensor is captured and
\* becomes an output.
RECURSIVE ConvertOutputs(_, _, _, _, _)
ConvertOutputs(graph, gname, src_ops, rets, acd) ==
  IF Len(graph.outputs) = Len(rets) THEN graph
  ELSE ConvertOutputs(MarkAsReturn(Capture(graph, gname, src_ops,
                                           rets[Len(graph.outputs) + 1]), gname, acd),
                      gname, src_ops, rets, acd)

\* --------------------------------------------------------- the outer graph
\* What exists before while_loop is called: two constants, a TensorArray
\* (handle, flow), one more constant and a resource variable that cond and body
\* may close over.
OuterInit ==
  << MkOp("Const", <<>>, <<"float32">>, Shape(<<2>>)),
     MkOp("Const", <<>>, <<"int32">>, Shape(<<2>>)),
     MkOp("TensorArrayV3", <<>>, <<"resource", "float32">>, Scalar),
     MkOp("Const", <<>>, <<"float32">>, Scalar),
     MkOp("VarHandleOp", <<>>, <<"resource">>, Scalar) >>

X1 == TensorLeaf(T("outer", 1, 1))
X2 == TensorLeaf(T("outer", 2, 1))
TA == Leaf("ta", T("outer", 3, 2), T("outer", 3, 1))
ExtC == T("outer", 4, 1)
ExtR == T("outer", 5, 1)
XR == TensorLeaf(ExtR)

\* ------------------------------------------------------------------ state
VARIABLES
  spec,              \* the caller's arguments: loop_vars, shape_invariants, cond, body
  pc,                \* where the program is
  err,               \* the error that ended a call ("" when none)
  outer_ops,         \* the operations of the graph while_loop is called in
  loop_vars,         \* while_loop's loop_vars, flattened
  shape_invariants,  \* while_loop's shape_invariants, flattened
  cond_graph,
  body_graph,
  while_op,          \* the forward While op (number in outer_ops, 0: none emitted)
  result,            \* what while_loop returned
  grads_in,          \* _WhileGrad's *grads as passed (NoTensor: None)
  grads,             \* grads after line 258
  body_grad_graph,   \* the _WhileBodyGradFuncGraph
  cond_grad_graph,
  grad_args,         \* args of _create_grad_func
  requests,          \* what the differentiator has captured so far
  grad_while_op,     \* the backward While op (0: none emitted)
  none_padded_outputs, \* what _WhileGrad returned
  fwd_vals,          \* execution: the values of the forward loop variables
  fwd_iters,         \* execution: forward body invocations so far
  bwd_vals,          \* execution: the values of the backward loop variables
  bwd_iters,         \* execution: backward body invocations so far
  popped             \* execution: what each TensorListPopBack has produced

fwdVars == <<spec, outer_ops, loop_vars, shape_invariants, cond_graph, body_graph,
             while_op, result>>

gradVars == <<grads_in, grads, body_grad_graph, cond_grad_graph, grad_args, requests,
              grad_while_op, none_padded_outputs>>

runVars == <<fwd_vals, fwd_iters, bwd_vals, bwd_iters, popped>>

orig_loop_vars == spec.loop_vars

len_orig_loop_vars == Len(orig_loop_vars.items)

num_flattened_outputs == Len(flatten(orig_loop_vars))

NoResult == List(<<Leaf("none", NoTensor, NoTensor)>>)

Fail(e) == pc' = "failed" /\ err' = e

\* The shape of the signature's placeholder after the user's op of each kind.
OutShape(kind, s) ==
  CASE kind = "grow" ->
         IF s.known /\ s.dims # <<>> /\ s.dims[1] # UnknownDim
         THEN Shape([s.dims EXCEPT ![1] = 2 * @]) ELSE s
    [] kind = "expand" -> IF s.known THEN Shape(<<1>> \o s.dims) ELSE s
    [] OTHER -> s

\* ----------------------------------------------------- while_loop, 61..90
\* The shape invariants the caller gave, flattened; "none": not given, the
\* shapes of the loop variables.
UserInvariant(mode, s) ==
  CASE mode = "wild" -> Shape([i \in DOMAIN s.dims |-> UnknownDim])
    [] mode = "unknown" -> UnknownShape
    [] OTHER -> s

\* loop_vars = [constant(0.)] + loop_vars; shape_invariants = [scalar] + ...
WithCounter(ops1, flows) ==
  /\ outer_ops' = ops1
  /\ loop_vars' = <<T("outer", Len(ops1), 1)>> \o flows
  /\ shape_invariants' = <<Scalar>> \o
        [i \in DOMAIN flows |-> UserInvariant(spec.inv, ShapeOf(outer_ops, flows[i]))]

WhileLoopStart ==
  /\ pc = "start"
  /\ UNCHANGED <<gradVars, runVars>>
  /\ IF spec.inv = "badstruct"
     THEN \* nest.assert_same_structure(orig_loop_vars, shape_invariants)
          /\ Fail("structure")
          /\ UNCHANGED fwdVars
     ELSE /\ WithCounter(Append(outer_ops, MkOp("Const", <<>>, <<"float32">>, Scalar)),
                         Tensors(flatten(tensor_array_to_flow(orig_loop_vars))))
          /\ pc' = "build_cond"
          /\ UNCHANGED <<err, spec, cond_graph, body_graph, while_op, result>>

\* --------------------------------------------------- while_loop, 96..120
UserCondOp(c, args) == AddOp(c.graph, MkOp("Less", args \o c.ts, <<"bool">>, Scalar))

\* The user's cond: one comparison over its arguments (all but the counter)
\* and the external tensors it closes over (spec.cond_refs).
UserCond(graph) ==
  UserCondOp(CaptureAll(graph, "cond", outer_ops, spec.cond_refs), Tail(graph.inputs))

CondReturn(graph) ==
  ConvertOutputs(graph, "cond", outer_ops, <<LastOp("cond", graph)>>, spec.in_defun)

\* loop_vars and shape_invariants grow by cond_graph.external_captures.
CondBuilt(g1) ==
  /\ cond_graph' = g1
  /\ loop_vars' = loop_vars \o external_captures(g1)
  /\ shape_invariants' = shape_invariants \o
         [i \in DOMAIN g1.captures |-> ShapeOf(outer_ops, g1.captures[i].ext)]

BuildCond ==
  /\ pc = "build_cond"
  /\ UNCHANGED <<gradVars, runVars>>
  /\ CondBuilt(CondReturn(UserCond(
       ArgPlaceholders(EmptyGraph, "cond", outer_ops, loop_vars, shape_invariants))))
  /\ pc' = "build_body"
  /\ UNCHANGED <<err, spec, outer_ops, body_graph, while_op, result>>

\* -------------------------------------------------- while_loop, 122..171
LeafDone(acc, g1, orig) ==
  [graph |-> g1,
   rets |-> Append(acc.rets, Leaf(orig.kind, LastOp("body", g1), orig.handle))]

TAWrite(c, arg) ==
  AddOp(c.graph, MkOp("TensorArrayWriteV3", <<c.t, arg>>, <<"float32">>, Scalar))

\* The user's body on one loop variable: "pass" returns the argument itself,
\* "tawrite" writes to the TensorArray (closing over its handle), the others
\* are one op on the argument.
UserLeaf(acc, arg, orig, kind) ==
  IF kind = "pass"
  THEN [graph |-> acc.graph, rets |-> Append(acc.rets, Leaf(orig.kind, arg, orig.handle))]
  ELSE IF kind = "tawrite"
  THEN LeafDone(acc, TAWrite(Capture(acc.graph, "body", outer_ops, orig.handle), arg), orig)
  ELSE LeafDone(acc, AddOp(acc.graph,
                           MkOp(kind, <<arg, arg>>, <<DtypeOf(acc.graph.ops, arg)>>,
                                OutShape(kind, ShapeOf(acc.graph.ops, arg)))), orig)

RECURSIVE UserLeaves(_, _, _, _)
UserLeaves(acc, args, origs, kinds) ==
  IF args = <<>> THEN acc
  ELSE UserLeaves(UserLeaf(acc, Head(args), Head(origs), Head(kinds)),
                  Tail(args), Tail(origs), Tail(kinds))

UserRefOp(c) == AddOp(c.graph, MkOp("UserOp", c.ts, <<"float32">>, Scalar))

\* An op on the external tensors the body closes over (spec.body_refs).
UserRefs(graph) ==
  IF spec.body_refs = <<>> THEN graph
  ELSE UserRefOp(CaptureAll(graph, "body", outer_ops, spec.body_refs))

\* A While op nested in the body, made by a while_loop that closes over the
\* resource: the capture is an input of the op and the output at its index.
NestedWhile(c) ==
  AddOp(c.graph, MkOp("While", <<c.graph.inputs[1], c.t>>, <<"float32", "resource">>,
                      Scalar))

\* A resource output in the body (spec.mkres): of an op that creates it, or of
\* a nested While op that an external resource goes through.
UserResource(graph) ==
  IF spec.mkres = "VarHandleOp"
  THEN AddOp(graph, MkOp("VarHandleOp", <<>>, <<"resource">>, Scalar))
  ELSE IF spec.mkres = "While"
  THEN NestedWhile(Capture(graph, "body", outer_ops, ExtR))
  ELSE graph

\* The structure the body returns its results in (spec.ret).
UserReturn(u) ==
  [graph |-> u.graph,
   ret |-> CASE spec.ret = "same" -> pack_sequence_as(orig_loop_vars, u.rets)
             [] spec.ret = "flat" -> List(u.rets)
             [] OTHER -> Head(u.rets)]

\* The user's body, called on the loop variables.
UserBody(graph, args) ==
  UserReturn(UserLeaves([graph |-> UserResource(UserRefs(graph)), rets |-> <<>>],
                        args, flatten(orig_loop_vars), spec.kinds))

AddCounter(g1, loop_counter) ==
  AddOp(g1, MkOp("Add", <<loop_counter, LastOp("body", g1)>>, <<"float32">>, Scalar))

\* loop_counter + 1
CounterPlusOne(graph, loop_counter) ==
  AddCounter(AddOp(graph, MkOp("Const", <<>>, <<"float32">>, Scalar)), loop_counter)

\* wrapped_body's return: the body graph with the counter update, the user's
\* outputs (a non-sequence becomes [outputs]) and the arguments passed through.
WrappedReturn(g0, u) ==
  [graph |-> CounterPlusOne(u.graph, g0.inputs[1]),
   outputs |-> IF ~is_sequence(u.ret) THEN List(<<u.ret>>) ELSE u.ret,
   rest |-> SubSeq(g0.inputs, 2 + num_flattened_outputs, Len(g0.inputs))]

\* wrapped_body(loop_counter, *args):
\* body(*_pack_sequence_as(orig_loop_vars, args[:len_orig_loop_vars]))
WrappedBody(g0) ==
  WrappedReturn(g0, UserBody(g0, Tensors(flatten(
    PackSequenceAs(orig_loop_vars,
                   [i \in 1..num_flattened_outputs |-> TensorLeaf(g0.inputs[1 + i])])))))

\* Line 171 left out: the captures are inputs of the body and no outputs.
WithInternalCaptures_dropped(graph) == graph

\* body_graph.outputs.extend(body_graph.internal_captures)
WithInternalCaptures(graph) == [graph EXCEPT !.outputs = @ \o internal_captures(graph)]

\* [loop_counter + 1] + list(outputs) + list(args[len_orig_loop_vars:])
BodyGraph(w) ==
  WithInternalCaptures(
    ConvertOutputs(w.graph, "body", outer_ops,
                   <<LastOp("body", w.graph)>>
                     \o Tensors(flatten(tensor_array_to_flow(w.outputs))) \o w.rest,
                   spec.in_defun))

\* Line 167 putting the captures of body_graph before the loop variables.
BodyBuilt_front(g) ==
  /\ loop_vars' = external_captures(g) \o loop_vars
  /\ body_graph' = g

BodyBuilt(g) ==
  /\ loop_vars' = loop_vars \o external_captures(g)
  /\ body_graph' = g

BuildBodyFrom(w) ==
  IF ~same_structure(w.outputs, orig_loop_vars)
  THEN /\ Fail("structure")
       /\ UNCHANGED fwdVars
  ELSE /\ BodyBuilt(BodyGraph(w))
       /\ pc' = "reconcile"
       /\ UNCHANGED <<err, spec, outer_ops, shape_invariants, cond_graph, while_op, result>>

BuildBody ==
  /\ pc = "build_body"
  /\ UNCHANGED <<gradVars, runVars>>
  /\ BuildBodyFrom(WrappedBody(
       ArgPlaceholders(EmptyGraph, "body", outer_ops, loop_vars, shape_invariants)))

\* -------------------------------------------------- while_loop, 173..183
\* cond_graph captures each external capture of body_graph; a tensor that
\* cond_graph captures already fails the assertion.
\* The assertion of line 179 made for the first capture of body_graph only.
Ambiguous_first(cond_caps, body_caps) ==
  body_caps # <<>> /\ InSeq(body_caps[1], cond_caps)

Ambiguous(cond_caps, body_caps) == \E i \in DOMAIN body_caps : InSeq(body_caps[i], cond_caps)

ReconcileCaptures ==
  /\ pc = "reconcile"
  /\ UNCHANGED <<gradVars, runVars>>
  /\ IF Ambiguous(external_captures(cond_graph), external_captures(body_graph))
     THEN /\ Fail("ambiguous")
          /\ UNCHANGED fwdVars
     ELSE /\ cond_graph' = CaptureAll(cond_graph, "cond", outer_ops,
                                      external_captures(body_graph)).graph
          /\ pc' = "accumulate"
          /\ UNCHANGED <<err, spec, outer_ops, loop_vars, shape_invariants, body_graph,
                         while_op, result>>

\* --------------------------------------------- _get_accumulator, 474..531
\* tensor.consumers(): the operations that take the tensor as an input.
Consumers(graph, tensor) ==
  LET Consumes(i) == InSeq(tensor, graph.ops[i].ins)
  IN SelectSeq([i \in DOMAIN graph.ops |-> i], Consumes)

IdentityOutput(graph, gname, cs) ==
  IF cs # <<>> /\ graph.ops[cs[1]].type = "Identity"
     /\ InSeq(T(gname, cs[1], 1), graph.outputs)
  THEN T(gname, cs[1], 1)
  ELSE NoTensor

\* get_func_graph_output: t or Identity(t), whichever the graph outputs, else
\* NoTensor (None).  It is only called on the output of a TensorListPushBack.
get_func_graph_output(graph, gname, t) ==
  IF InSeq(t, graph.outputs) THEN t
  ELSE IdentityOutput(graph, gname, Consumers(graph, t))

\* accum_input_idx == accum_output_idx
SameIndex(graph, input_tl, output) ==
  /\ output # NoTensor
  /\ IndexOf(input_tl, graph.inputs) = IndexOf(output, graph.outputs)

\* The test of lines 519..528 made on the pushed value, not on the list.
IsAccumulatorOf_value(graph, gname, consumer) ==
  /\ graph.ops[consumer].type = "TensorListPushBack"
  /\ InSeq(graph.ops[consumer].ins[2], graph.inputs)
  /\ SameIndex(graph, graph.ops[consumer].ins[2],
               get_func_graph_output(graph, gname, T(gname, consumer, 1)))

\* Whether consumer (an op number) accumulates the tensor: a TensorListPushBack
\* whose list is a graph input and whose output is a graph output at the same
\* index.
IsAccumulatorOf(graph, gname, consumer) ==
  /\ graph.ops[consumer].type = "TensorListPushBack"
  /\ InSeq(graph.ops[consumer].ins[1], graph.inputs)
  /\ SameIndex(graph, graph.ops[consumer].ins[1],
               get_func_graph_output(graph, gname, T(gname, consumer, 1)))

\* for consumer in tensor.consumers(): the first that accumulates it.
RECURSIVE FirstAccumulator(_, _, _)
FirstAccumulator(graph, gname, cs) ==
  IF cs = <<>> THEN NoTensor
  ELSE IF IsAccumulatorOf(graph, gname, Head(cs))
  THEN get_func_graph_output(graph, gname, T(gname, Head(cs), 1))
  ELSE FirstAccumulator(graph, gname, Tail(cs))

get_accumulator(graph, gname, tensor) ==
  FirstAccumulator(graph, gname, Consumers(graph, tensor))

\* -------------------------------------------- _get_intermediates, 435..471
\* The test of lines 467..469 leaving out every input of the graph, not the
\* loop counter alone.
IsIntermediate_noinputs(graph, gname, o) ==
  /\ ~InSeq(o, graph.inputs)
  /\ DtypeOf(graph.ops, o) # "resource"
  /\ get_accumulator(graph, gname, o) = NoTensor

IsIntermediate(graph, gname, o) ==
  /\ o # graph.inputs[1]
  /\ DtypeOf(graph.ops, o) # "resource"
  /\ get_accumulator(graph, gname, o) = NoTensor

\* The most outputs an operation of the graph has.
MaxOutputs(graph) ==
  CHOOSE n \in 0..Len(graph.ops) + 2 :
    /\ \A i \in DOMAIN graph.ops : Len(graph.ops[i].dtypes) <= n
    /\ \/ n = 0
       \/ \E i \in DOMAIN graph.ops : Len(graph.ops[i].dtypes) = n

\* The loop of lines 463..470 without the skip of Identity ops.
get_intermediates_identities(graph, gname) ==
  LET w == MaxOutputs(graph)
      Output(k) == T(gname, ((k - 1) \div w) + 1, ((k - 1) % w) + 1)
      Selected(o) == /\ o.out <= Len(graph.ops[o.op].dtypes)
                     /\ IsIntermediate(graph, gname, o)
  IN SelectSeq([k \in 1..(Len(graph.ops) * w) |-> Output(k)], Selected)

\* for op in func_graph.get_operations(): for o in op.outputs: the outputs of
\* the operations, in the order of the operations.
get_intermediates(graph, gname) ==
  LET w == MaxOutputs(graph)
      Output(k) == T(gname, ((k - 1) \div w) + 1, ((k - 1) % w) + 1)
      Selected(o) == /\ o.out <= Len(graph.ops[o.op].dtypes)
                     /\ graph.ops[o.op].type # "Identity"
                     /\ IsIntermediate(graph, gname, o)
  IN SelectSeq([k \in 1..(Len(graph.ops) * w) |-> Output(k)], Selected)

\* -------------------------------------------------- while_loop, 185..208
\* tensor_list_push_back with its result put first among the body's outputs.
PushBack_first(b, gname, intermediate_tensor) ==
  [AddOp(b.graph, MkOp("TensorListPushBack", <<b.t, intermediate_tensor>>,
                       <<"variant">>, Scalar))
     EXCEPT !.outputs = <<T(gname, Len(b.graph.ops) + 1, 1)>> \o @]

\* tensor_list_push_back(tensor_list, intermediate_tensor) in the body, and its
\* result appended to the body's outputs.
PushBack(b, gname, intermediate_tensor) ==
  AddLastOutput(AddOp(b.graph, MkOp("TensorListPushBack", <<b.t, intermediate_tensor>>,
                                    <<"variant">>, Scalar)), gname)

AccumulateInto(st, ops1, tensor_list, intermediate_tensor) ==
  [n |-> st.n + 1,
   outer |-> ops1,
   lv |-> Append(st.lv, tensor_list),
   cond |-> Capture(st.cond, "cond", ops1, tensor_list).graph,
   body |-> PushBack(Capture(st.body, "body", ops1, tensor_list), "body",
                     intermediate_tensor)]

\* One accumulator: an empty TensorList outside the loop, a loop variable, an
\* input of cond, and in the body an input, a push of the intermediate and an
\* output.
AccumulateOne(st, intermediate_tensor) ==
  AccumulateInto(st, Append(st.outer, MkOp("EmptyTensorList", <<>>, <<"variant">>, Scalar)),
                 T("outer", Len(st.outer) + 1, 1), intermediate_tensor)

RECURSIVE AccumulateAll(_, _)
AccumulateAll(st, intermediates) ==
  IF st.n = Len(intermediates) THEN st
  ELSE AccumulateAll(AccumulateOne(st, intermediates[st.n + 1]), intermediates)

Accumulated(st) ==
  /\ outer_ops' = st.outer
  /\ loop_vars' = st.lv
  /\ cond_graph' = st.cond
  /\ body_graph' = st.body

Accumulate ==
  /\ pc = "accumulate"
  /\ UNCHANGED <<gradVars, runVars>>
  /\ Accumulated(AccumulateAll([n |-> 0, outer |-> outer_ops, lv |-> loop_vars,
                                cond |-> cond_graph, body |-> body_graph],
                               get_intermediates(body_graph, "body")))
  /\ pc' = "validate"
  /\ UNCHANGED <<err, spec, shape_invariants, while_op, result>>

\* ------------------------------------------------ validation, 210..220
\* control_flow_ops._ShapeLessThanOrEqual(shape1, shape2)
ShapeLessThanOrEqual(shape1, shape2) ==
  IF ~shape2.known THEN TRUE
  ELSE IF ~shape1.known \/ Len(shape1.dims) # Len(shape2.dims) THEN FALSE
  ELSE \A i \in DOMAIN shape2.dims :
         shape2.dims[i] # UnknownDim => shape1.dims[i] = shape2.dims[i]

Min(a, b) == IF a < b THEN a ELSE b

\* _check_shapes_compat looking at the first loop variable only.
check_shapes_compat_first(graph, output_tensors, invariants) ==
  \A i \in 1..Min(1, Min(Len(output_tensors), Len(invariants))) :
    ShapeLessThanOrEqual(ShapeOf(graph.ops, output_tensors[i]), invariants[i])

\* _check_shapes_compat: TRUE when no ValueError is raised.
check_shapes_compat(graph, output_tensors, invariants) ==
  \A i \in 1..Min(Len(output_tensors), Len(invariants)) :
    ShapeLessThanOrEqual(ShapeOf(graph.ops, output_tensors[i]), invariants[i])

\* _check_num_inputs_outputs: TRUE when no assertion fails.
check_num_inputs_outputs(cond, body, num_flattened_loop_vars) ==
  /\ Len(cond.inputs) = num_flattened_loop_vars
  /\ Len(cond.outputs) = 1
  /\ Len(body.inputs) = num_flattened_loop_vars
  /\ Len(body.outputs) = num_flattened_loop_vars

Slice(s, from, to) == SubSeq(s, from, Min(to, Len(s)))

\* The checks of lines 213..220 made after the While op is created.
Validate_late ==
  /\ pc = "validate"
  /\ UNCHANGED <<gradVars, runVars>>
  /\ outer_ops' = Append(outer_ops,
                        MkOp("While", loop_vars,
                             [i \in DOMAIN loop_vars |-> DtypeOf(outer_ops, loop_vars[i])],
                             Scalar))
  /\ IF ~check_shapes_compat(body_graph,
                             Slice(body_graph.outputs, 2, 1 + num_flattened_outputs),
                             Slice(shape_invariants, 2, 1 + num_flattened_outputs))
     THEN Fail("shape")
     ELSE pc' = "returned" /\ err' = err
  /\ UNCHANGED <<spec, loop_vars, shape_invariants, cond_graph, body_graph, result>>
  /\ while_op' = Len(outer_ops) + 1

Validate ==
  /\ pc = "validate"
  /\ UNCHANGED <<gradVars, runVars>>
  /\ IF ~check_shapes_compat(body_graph,
                             Slice(body_graph.outputs, 2, 1 + num_flattened_outputs),
                             Slice(shape_invariants, 2, 1 + num_flattened_outputs))
     THEN Fail("shape")
     ELSE IF ~check_num_inputs_outputs(cond_graph, body_graph, Len(loop_vars))
     THEN Fail("arity")
     ELSE pc' = "emit" /\ err' = err
  /\ UNCHANGED fwdVars

\* ------------------------------------------------ while_loop, 222..245
\* gen_functional_ops._while: one While op, one output per input.
EmitWhile(ops, inputs) ==
  Append(ops, MkOp("While", inputs, [i \in DOMAIN inputs |-> DtypeOf(ops, inputs[i])],
                   Scalar))

\* array_ops.identity(t) for t in outputs
RECURSIVE Identities(_, _)
Identities(ops, ts) ==
  IF ts = <<>> THEN ops
  ELSE Identities(Append(ops, MkOp("Identity", <<Head(ts)>>,
                                   <<DtypeOf(ops, Head(ts))>>, Scalar)), Tail(ts))

\* The return of line 241 with the loop counter not stripped.
WhileLoopReturn_counter(outputs) ==
  IF num_flattened_outputs = 1 THEN TensorLeaf(outputs[1])
  ELSE PackSequenceAs(orig_loop_vars,
         [i \in 1..num_flattened_outputs |-> TensorLeaf(outputs[i])])

\* What while_loop returns; outputs are the identities of the While outputs.
WhileLoopReturn(outputs) ==
  IF num_flattened_outputs = 1 THEN TensorLeaf(outputs[2])
  ELSE PackSequenceAs(orig_loop_vars,
         [i \in 1..num_flattened_outputs |-> TensorLeaf(outputs[1 + i])])

Emitted(ops1) ==
  /\ outer_ops' = Identities(ops1, [i \in DOMAIN loop_vars |-> T("outer", Len(ops1), i)])
  /\ while_op' = Len(ops1)
  /\ result' = WhileLoopReturn([i \in DOMAIN loop_vars |-> T("outer", Len(ops1) + i, 1)])

Emit ==
  /\ pc = "emit"
  /\ UNCHANGED <<gradVars, runVars>>
  /\ Emitted(EmitWhile(outer_ops, loop_vars))
  /\ pc' = "returned"
  /\ UNCHANGED <<err, spec, loop_vars, shape_invariants, cond_graph, body_graph>>

\* ------------------------------------------------------------ the inputs
KindsOf(leaf, kinds) ==
  IF leaf.kind = "ta" THEN {"pass", "tawrite"}
  ELSE IF DtypeOf(OuterInit, leaf.t) = "resource" THEN {"pass"}
  ELSE kinds

\* The kinds of body op drawn for a flat list of loop variables.
KindSeqs(leaves, kinds) ==
  { f \in [DOMAIN leaves -> kinds \cup {"pass", "tawrite"}] :
      \A n \in DOMAIN f : f[n] \in KindsOf(leaves[n], kinds) }

InitWith(structures, kinds, invs, rets, cond_refs, body_refs, mkres, defun) ==
  /\ \E s \in structures, i \in invs, r \in rets, c \in cond_refs, b \in body_refs,
        m \in mkres, d \in defun :
       \E k \in KindSeqs(flatten(s), kinds) :
         spec = [loop_vars |-> s, kinds |-> k, inv |-> i, ret |-> r, cond_refs |-> c,
                 body_refs |-> b, mkres |-> m, in_defun |-> d]
  /\ pc = "start"
  /\ err = ""
  /\ outer_ops = OuterInit
  /\ loop_vars = <<>>
  /\ shape_invariants = <<>>
  /\ cond_graph = EmptyGraph
  /\ body_graph = EmptyGraph
  /\ while_op = 0
  /\ result = NoResult
  /\ grads_in = <<>>
  /\ grads = <<>>
  /\ body_grad_graph = EmptyGradGraph
  /\ cond_grad_graph = EmptyGraph
  /\ grad_args = <<>>
  /\ requests = <<>>
  /\ grad_while_op = 0
  /\ none_padded_outputs = <<>>
  /\ fwd_vals = <<>>
  /\ fwd_iters = 0
  /\ bwd_vals = <<>>
  /\ bwd_iters = 0
  /\ popped = {}

\* Forward assembly alone, over a wide set of loop specs.
InitAssembly ==
  InitWith({ List(<<X1>>), List(<<X1, X2>>), List(<<List(<<X1, X2>>)>>),
             List(<<X1, List(<<X2>>)>>), List(<<TA>>), List(<<List(<<X1>>)>>) },
           {"pass", "Mul", "grow", "expand"},
           {"none", "same", "wild", "unknown", "badstruct"},
           {"same", "flat", "bare"},
           {<<>>, <<ExtC>>, <<X1.t>>},
           {<<>>, <<ExtC>>, <<ExtR>>, <<X1.t>>, <<ExtR, ExtC>>},
           {"none"},
           BOOLEAN)

vars == <<spec, pc, err, outer_ops, loop_vars, shape_invariants, cond_graph, body_graph,
          while_op, result, grads_in, grads, body_grad_graph, cond_grad_graph, grad_args,
          requests, grad_while_op, none_padded_outputs, fwd_vals, fwd_iters, bwd_vals,
          bwd_iters, popped>>

NextAssembly ==
  \/ WhileLoopStart
  \/ BuildCond
  \/ BuildBody
  \/ ReconcileCaptures
  \/ Accumulate
  \/ Validate
  \/ Emit

SpecAssembly == InitAssembly /\ [][NextAssembly]_vars

\* ------------------------------------------------ _WhileGrad, 248..272
\* Op types that output a resource tensor representing a TensorArray handle.
TENSOR_ARRAY_HANDLE_OPS == {"TensorArrayV3", "TensorArrayGradV3", "TensorArrayGradWithShape"}

\* _is_tensor_array_handle: for an output of a While op, the input at the
\* same index is looked at.
is_tensor_array_handle(ops, tensor) ==
  /\ DtypeOf(ops, tensor) = "resource"
  /\ IF ops[tensor.op].type = "While"
     THEN ops[ops[tensor.op].ins[tensor.out].op].type \in TENSOR_ARRAY_HANDLE_OPS
     ELSE ops[tensor.op].type \in TENSOR_ARRAY_HANDLE_OPS

\* gradients_impl.IsTrainable
IsTrainable(ops, tensor) ==
  DtypeOf(ops, tensor) \in {"float16", "float32", "float64", "complex64", "complex128",
                            "resource", "variant"}

\* _get_body_graph(op): the body FuncGraph rebuilt from the function the op
\* names; its _while is op.
get_body_graph == body_graph

\* op.outputs of the forward While op.
WhileOutputs == [i \in DOMAIN outer_ops[while_op].ins |-> T("outer", while_op, i)]

\* op.inputs of the forward While op.
WhileInputs == outer_ops[while_op].ins

GradDtype(dtype) == IF dtype = "resource" THEN "float32" ELSE dtype

\* The incoming gradients the caller passes: one tensor per output of the op,
\* None (NoTensor) for the outputs in `absent`.
RECURSIVE IncomingGrads(_, _, _)
IncomingGrads(acc, outputs, absent) ==
  IF Len(acc.gs) = Len(outputs) THEN acc
  ELSE IF (Len(acc.gs) + 1) \in absent
  THEN IncomingGrads([ops |-> acc.ops, gs |-> Append(acc.gs, NoTensor)], outputs, absent)
  ELSE IncomingGrads(
         [ops |-> Append(acc.ops,
                         MkOp("IncomingGrad", <<>>,
                              <<GradDtype(DtypeOf(acc.ops, outputs[Len(acc.gs) + 1]))>>,
                              Scalar)),
          gs |-> Append(acc.gs, T("outer", Len(acc.ops) + 1, 1))],
         outputs, absent)

\* None if _is_tensor_array_handle(output) else grad
NullTensorArrayGrads(ops, gs, outputs) ==
  [i \in DOMAIN gs |-> IF is_tensor_array_handle(ops, outputs[i]) THEN NoTensor ELSE gs[i]]

\* The assertion of line 264 without `o.dtype == dtypes.resource`.
MissingGradient_resource(ops, gs, outputs) ==
  ~ \A i \in DOMAIN gs : gs[i] # NoTensor \/ ~IsTrainable(ops, outputs[i])

\* The assertion of line 264 fails.
MissingGradient(ops, gs, outputs) ==
  ~ \A i \in DOMAIN gs :
      \/ gs[i] # NoTensor
      \/ DtypeOf(ops, outputs[i]) = "resource"
      \/ ~IsTrainable(ops, outputs[i])

\* [x for (x, grad) in zip(xs, gs) if grad is not None]
RECURSIVE NonNone(_, _)
NonNone(xs, gs) ==
  IF xs = <<>> \/ gs = <<>> THEN <<>>
  ELSE (IF Head(gs) # NoTensor THEN <<Head(xs)>> ELSE <<>>) \o NonNone(Tail(xs), Tail(gs))

\* ------------------------------------------ _create_grad_func, 372..384
\* counter = constant(0.); total_iters = while_op.outputs[0];
\* args = [counter, total_iters] + list(grads); the gradient FuncGraph gets one
\* placeholder per argument.
GradFuncStarted(ops2, args) ==
  /\ outer_ops' = ops2
  /\ grad_args' = args
  /\ body_grad_graph' =
       ArgPlaceholders(EmptyGradGraph, "grad", ops2, args,
                       [i \in DOMAIN args |-> ShapeOf(ops2, args[i])])

CreateGradFunc(ops1, non_none_grads) ==
  GradFuncStarted(Append(ops1, MkOp("Const", <<>>, <<"float32">>, Scalar)),
                  <<T("outer", Len(ops1) + 1, 1), WhileOutputs[1]>> \o non_none_grads)

WhileGradWith(ops1, gin, gs) ==
  /\ grads_in' = gin
  /\ grads' = gs
  /\ IF MissingGradient(ops1, gs, WhileOutputs)
     THEN /\ Fail("missing_gradient")
          /\ outer_ops' = ops1
          /\ UNCHANGED <<body_grad_graph, grad_args>>
     ELSE /\ CreateGradFunc(ops1, NonNone(gs, gs))
          /\ pc' = "grad_fn"
          /\ err' = err

WhileGradStart(inc) ==
  WhileGradWith(inc.ops, inc.gs, NullTensorArrayGrads(inc.ops, inc.gs, WhileOutputs))

\* _WhileGrad(op, *grads), up to the call of the differentiator.
WhileGrad ==
  /\ pc = "returned"
  /\ \E absent \in SUBSET DOMAIN WhileInputs :
       /\ Cardinality(absent) <= MaxAbsent
       /\ WhileGradStart(IncomingGrads([ops |-> outer_ops, gs |-> <<>>], WhileOutputs,
                                       absent))
  /\ UNCHANGED <<spec, loop_vars, shape_invariants, cond_graph, body_graph, while_op,
                 result, cond_grad_graph, requests, grad_while_op, none_padded_outputs>>
  /\ UNCHANGED runVars

\* ------------------------------------ _WhileBodyGradFuncGraph, 534..682
HasKey(dict, k) == \E i \in DOMAIN dict : dict[i].k = k

\* dict.get(k): NoTensor (None) when absent.
Lookup(dict, k) ==
  IF HasKey(dict, k) THEN dict[CHOOSE i \in DOMAIN dict : dict[i].k = k].v ELSE NoTensor

Returned(graph, t) == [graph |-> graph, t |-> t, err |-> ""]

Raise(graph, e) == [graph |-> graph, t |-> NoTensor, err |-> e]

\* while tensor.op.type == "Identity": tensor = tensor.op.inputs[0]
RECURSIVE SkipIdentity(_, _)
SkipIdentity(ops, tensor) ==
  IF ops[tensor.op].type = "Identity" THEN SkipIdentity(ops, ops[tensor.op].ins[1])
  ELSE tensor

\* The index of a resource tensor among the forward graph's inputs (0: it is
\* neither an input nor the output of a nested While op).
ResourceIndex(fwd, tensor) ==
  IF InSeq(tensor, fwd.inputs) THEN IndexOf(tensor, fwd.inputs)
  ELSE IF fwd.ops[tensor.op].type = "While"
  THEN IndexOf(fwd.ops[tensor.op].ins[tensor.out], fwd.inputs)
  ELSE 0

\* _inner_to_outer_tensor[tensor] = outer; _indirect_captures[tensor] = c.t
Resolved(c, tensor, outer, captured) ==
  Returned([c.graph EXCEPT
              !.inner_to_outer_tensor = Append(@, [k |-> tensor, v |-> outer]),
              !.indirect_captures = Append(@, [k |-> tensor, v |-> captured])],
           captured)

ResourceCaptured(c, tensor, outer) == Resolved(c, tensor, outer, c.t)

\* capture() calls _capture_helper(), which calls capture(whitelisted=True)
\* for a resource.
RECURSIVE GradCapture(_, _, _)

\* Lines 630..655 without the assertion of line 648.
CaptureResource_unchecked(graph, tensor, index) ==
  IF index = 0 THEN Raise(graph, "resource")
  ELSE ResourceCaptured(GradCapture(graph, WhileInputs[index], TRUE), tensor,
                        WhileInputs[index])

\* Lines 630..655: a resource tensor is resolved to the While op's input.
CaptureResource(graph, tensor, index) ==
  IF index = 0 THEN Raise(graph, "resource")
  ELSE IF get_body_graph.inputs[index] # get_body_graph.outputs[index]
  THEN Raise(graph, "not_invariant")
  ELSE ResourceCaptured(GradCapture(graph, WhileInputs[index], TRUE), tensor,
                        WhileInputs[index])

\* Line 681 keeping the captured accumulator itself, not the list it was
\* popped to.
PoppedBack_kept(c, g1, tensor, outer) ==
  Resolved([graph |-> [g1 EXCEPT !.popped_tensor_lists =
                                    Append(@, [k |-> c.t, v |-> c.t])],
            t |-> c.t],
           tensor, outer, T("grad", Len(g1.ops), 2))

\* popped_tensor_lists[accumulator_ph] = new_tensor_list
PoppedBack(c, g1, tensor, outer) ==
  Resolved([graph |-> [g1 EXCEPT !.popped_tensor_lists =
                                    Append(@, [k |-> c.t, v |-> T("grad", Len(g1.ops), 1)])],
            t |-> c.t],
           tensor, outer, T("grad", Len(g1.ops), 2))

\* list_ops.tensor_list_pop_back(accumulator_ph, element_dtype=tensor.dtype)
PopBack(c, tensor, outer) ==
  PoppedBack(c, AddOp(c.graph,
                      MkOp("TensorListPopBack", <<c.t>>,
                           <<"variant", DtypeOf(get_body_graph.ops, tensor)>>, Scalar)),
             tensor, outer)

\* Lines 659..682: the accumulator of the tensor in the forward graph, the
\* While op's output at the accumulator's index, captured and popped.
CaptureAccumulated(graph, tensor, accumulator) ==
  IF accumulator = NoTensor THEN Raise(graph, "unaccumulated")
  ELSE PopBack(CaptureHelper(graph, "grad", outer_ops,
                             WhileOutputs[IndexOf(accumulator, get_body_graph.outputs)]),
               tensor, WhileOutputs[IndexOf(accumulator, get_body_graph.outputs)])

\* Lines 622..682 without the cache of lines 622..628 and the assertion of
\* line 657: a tensor is resolved anew each time.
CaptureForward_uncached(graph, tensor) ==
  IF DtypeOf(get_body_graph.ops, tensor) = "resource"
  THEN CaptureResource(graph, tensor, ResourceIndex(get_body_graph, tensor))
  ELSE CaptureAccumulated(graph, tensor, get_accumulator(get_body_graph, "body", tensor))

\* _capture_helper for a tensor of the forward graph (Identity ops skipped).
CaptureForward(graph, tensor) ==
  IF HasKey(graph.indirect_captures, tensor)
  THEN IF ~InSeq(Lookup(graph.inner_to_outer_tensor, tensor), external_captures(graph))
       THEN Raise(graph, "assert_captured")
       ELSE Returned(graph, Lookup(graph.indirect_captures, tensor))
  ELSE IF DtypeOf(get_body_graph.ops, tensor) = "resource"
  THEN CaptureResource(graph, tensor, ResourceIndex(get_body_graph, tensor))
  ELSE IF HasKey(graph.inner_to_outer_tensor, tensor)
  THEN Raise(graph, "assert_unresolved")
  ELSE CaptureAccumulated(graph, tensor, get_accumulator(get_body_graph, "body", tensor))

PlainCaptured(c) == Returned(c.graph, c.t)

\* capture without the test of line 606: any tensor is captured.
GradCapture_unscoped(graph, tensor, whitelisted) ==
  IF tensor.g = "grad" THEN Returned(graph, tensor)
  ELSE IF tensor.g # "body"
  THEN PlainCaptured(CaptureHelper(graph, "grad", outer_ops, tensor))
  ELSE CaptureForward(graph, SkipIdentity(get_body_graph.ops, tensor))

\* _WhileBodyGradFuncGraph.capture and _capture_helper.
GradCapture(graph, tensor, whitelisted) ==
  IF ~whitelisted /\ tensor.g # "grad" /\ tensor.g # "body"
  THEN Raise(graph, "out_of_scope")
  ELSE IF tensor.g = "grad" THEN Returned(graph, tensor)
  ELSE IF tensor.g # "body"
  THEN PlainCaptured(CaptureHelper(graph, "grad", outer_ops, tensor))
  ELSE CaptureForward(graph, SkipIdentity(get_body_graph.ops, tensor))

\* ------------------------------------------------- _grad_fn, 401..432
\* The tensors of a graph: every output of every operation.
TensorsOf(graph, gname) ==
  { t \in [g : {gname}, op : DOMAIN graph.ops, out : 1..2] :
      t.out <= Len(graph.ops[t.op].dtypes) }

\* What a gradient function may use: an input or an output of an operation of
\* the forward body as the caller's body function and wrapped_body built it
\* (the accumulators' TensorListPushBack ops have gradients that use neither,
\* and so has the Add that alone takes the loop counter).
Requestable(graph, gname) ==
  { t \in TensorsOf(graph, gname) :
      /\ t # graph.inputs[1]
      /\ graph.ops[t.op].type # "TensorListPushBack"
      /\ ~ \E i \in DOMAIN graph.ops :
             graph.ops[i].type = "TensorListPushBack" /\ graph.ops[i].ins[1] = t }

Requested(c) ==
  IF c.err # ""
  THEN /\ Fail(c.err)
       /\ UNCHANGED <<body_grad_graph, requests>>
  ELSE /\ body_grad_graph' = c.graph
       /\ requests' = Append(requests, c.t)
       /\ UNCHANGED <<pc, err>>

\* gradients_impl._GradientsHelper, one step: a gradient function uses a tensor
\* of the forward body (or of another graph), which the gradient graph
\* captures.
GradRequest ==
  /\ pc = "grad_fn"
  /\ Len(requests) < MaxRequests
  /\ \E tensor \in Requestable(get_body_graph, "body") \cup {ExtC} :
       Requested(GradCapture(body_grad_graph, tensor, FALSE))
  /\ UNCHANGED <<fwdVars, grads_in, grads, cond_grad_graph, grad_args, grad_while_op,
                 none_padded_outputs>>
  /\ UNCHANGED runVars

\* grad_outs: one gradient per x, computed from the incoming gradient of its y
\* and from what the differentiator captured.
RECURSIVE GradOuts(_, _, _)
GradOuts(acc, grad_ys, used) ==
  IF Len(acc.outs) = Len(grad_ys) THEN acc
  ELSE GradOuts([graph |-> AddOp(acc.graph,
                                 MkOp("Grad", <<grad_ys[Len(acc.outs) + 1]>> \o used,
                                      <<DtypeOf(acc.graph.ops,
                                                grad_ys[Len(acc.outs) + 1])>>, Scalar)),
                 outs |-> Append(acc.outs, T("grad", Len(acc.graph.ops) + 1, 1))],
                grad_ys, used)

\* return [counter + 1, total_iters] + grad_outs, made the graph's outputs.
GradFnOutputs(g1, counter_plus_one, total_iters, grad_outs) ==
  ConvertOutputs(g1, "grad", outer_ops, <<counter_plus_one, total_iters>> \o grad_outs,
                 FALSE)

GradCounterPlusOne(g1, args, grad_outs) ==
  GradFnOutputs(g1, LastOp("grad", g1), args[2], grad_outs)

\* _grad_fn after the differentiator: counter = args[0]; total_iters = args[1]
GradFnReturn(r, args) ==
  GradCounterPlusOne(
    AddOp(AddOp(r.graph, MkOp("Const", <<>>, <<"float32">>, Scalar)),
          MkOp("Add", <<args[1], T("grad", Len(r.graph.ops) + 1, 1)>>, <<"float32">>,
               Scalar)),
    args, r.outs)

\* ------------------------------------------ _create_grad_func, 386..398
\* The loop of line 387 appending the captured accumulator itself instead of
\* the list it was popped to.
RECURSIVE PoppedOutputs_unpopped(_, _)
PoppedOutputs_unpopped(acc, ics) ==
  IF ics = <<>> \/ acc.err # "" THEN acc
  ELSE PoppedOutputs_unpopped([graph |-> AddOutput(acc.graph, Head(ics)), err |-> ""],
                              Tail(ics))

\* Add the popped accumulators to the list of outputs.
RECURSIVE PoppedOutputs(_, _)
PoppedOutputs(acc, ics) ==
  IF ics = <<>> \/ acc.err # "" THEN acc
  ELSE IF HasKey(acc.graph.popped_tensor_lists, Head(ics))
  THEN PoppedOutputs([graph |-> AddOutput(acc.graph,
                                          Lookup(acc.graph.popped_tensor_lists, Head(ics))),
                      err |-> ""], Tail(ics))
  ELSE IF DtypeOf(acc.graph.ops, Head(ics)) = "resource"
  THEN PoppedOutputs([graph |-> AddOutput(acc.graph, Head(ics)), err |-> ""], Tail(ics))
  ELSE [graph |-> acc.graph, err |-> "internal_capture"]

GradFuncCreated(r) ==
  IF r.err # ""
  THEN /\ Fail(r.err)
       /\ UNCHANGED body_grad_graph
  ELSE /\ body_grad_graph' = r.graph
       /\ pc' = "grad_accumulate"
       /\ err' = err

GradFuncOutputs(g1) == GradFuncCreated(PoppedOutputs([graph |-> g1, err |-> ""],
                                                     internal_captures(g1)))

\* The differentiator returns; _grad_fn and _create_grad_func finish.
GradFn ==
  /\ pc = "grad_fn"
  /\ GradFuncOutputs(GradFnReturn(
       GradOuts([graph |-> body_grad_graph, outs |-> <<>>],
                SubSeq(body_grad_graph.inputs, 3, Len(grad_args)), requests),
       body_grad_graph.inputs))
  /\ UNCHANGED <<fwdVars, grads_in, grads, cond_grad_graph, grad_args, requests,
                 grad_while_op, none_padded_outputs>>
  /\ UNCHANGED runVars

\* ------------------------------------------------ _WhileGrad, 278..290
GradAccumulateInto(st, ops1, tensor_list, intermediate_tensor) ==
  [n |-> st.n + 1,
   outer |-> ops1,
   body |-> PushBack(PlainCaptured(CaptureHelper(st.body, "grad", ops1, tensor_list)),
                     "grad", intermediate_tensor)]

\* One accumulator of the gradient body: an empty TensorList outside, captured
\* (whitelisted) by the gradient body, pushed to and output.
GradAccumulateOne(st, intermediate_tensor) ==
  GradAccumulateInto(st, Append(st.outer, MkOp("EmptyTensorList", <<>>, <<"variant">>,
                                               Scalar)),
                     T("outer", Len(st.outer) + 1, 1), intermediate_tensor)

RECURSIVE GradAccumulateAll(_, _)
GradAccumulateAll(st, intermediates) ==
  IF st.n = Len(intermediates) THEN st
  ELSE GradAccumulateAll(GradAccumulateOne(st, intermediates[st.n + 1]), intermediates)

GradAccumulated(st) ==
  /\ outer_ops' = st.outer
  /\ body_grad_graph' = st.body

GradAccumulate ==
  /\ pc = "grad_accumulate"
  /\ GradAccumulated(GradAccumulateAll([n |-> 0, outer |-> outer_ops, body |-> body_grad_graph],
                                       get_intermediates(body_grad_graph, "grad")))
  /\ pc' = "grad_cond"
  /\ UNCHANGED <<err, spec, loop_vars, shape_invariants, cond_graph, body_graph, while_op,
                 result, grads_in, grads, cond_grad_graph, grad_args, requests,
                 grad_while_op, none_padded_outputs>>
  /\ UNCHANGED runVars

\* ------------------------------------------------ _WhileGrad, 292..325
\* loop_vars = args + body_grad_graph.external_captures
grad_loop_vars == grad_args \o external_captures(body_grad_graph)

\* grad_cond with its operands exchanged: max_iters < counter.
grad_cond_swapped(graph) ==
  AddOp(graph, MkOp("Less", <<graph.inputs[2], graph.inputs[1]>>, <<"bool">>, Scalar))

\* def grad_cond(counter, max_iters, *unused_args): return counter < max_iters
grad_cond(graph) ==
  AddOp(graph, MkOp("Less", <<graph.inputs[1], graph.inputs[2]>>, <<"bool">>, Scalar))

GradCondReturn(g1) == ConvertOutputs(g1, "grad_cond", outer_ops,
                                     <<LastOp("grad_cond", g1)>>, FALSE)

BuildGradCond ==
  /\ pc = "grad_cond"
  /\ cond_grad_graph' =
       GradCondReturn(grad_cond(
         ArgPlaceholders(EmptyGraph, "grad_cond", outer_ops, grad_loop_vars,
                         [i \in DOMAIN grad_loop_vars |->
                            ShapeOf(outer_ops, grad_loop_vars[i])])))
  /\ pc' = "grad_validate"
  /\ UNCHANGED <<err, fwdVars, grads_in, grads, body_grad_graph, grad_args, requests,
                 grad_while_op, none_padded_outputs>>
  /\ UNCHANGED runVars

GradValidate ==
  /\ pc = "grad_validate"
  /\ IF ~check_num_inputs_outputs(cond_grad_graph, body_grad_graph, Len(grad_loop_vars))
     THEN Fail("arity")
     ELSE pc' = "grad_emit" /\ err' = err
  /\ UNCHANGED <<fwdVars, gradVars, runVars>>

\* The padding of line 317 with index advancing at every entry.
RECURSIVE NonePadded_positional(_, _, _, _)
NonePadded_positional(acc, gs, outputs, index) ==
  IF gs = <<>> THEN acc
  ELSE IF Head(gs) = NoTensor
  THEN NonePadded_positional(Append(acc, NoTensor), Tail(gs), outputs, index + 1)
  ELSE NonePadded_positional(Append(acc, outputs[index + 1]), Tail(gs), outputs, index + 1)

\* none_padded_outputs: None where the gradient is None, else the next output
\* of the backward While op, from index 2 on.
RECURSIVE NonePadded(_, _, _, _)
NonePadded(acc, gs, outputs, index) ==
  IF gs = <<>> THEN acc
  ELSE IF Head(gs) = NoTensor
  THEN NonePadded(Append(acc, NoTensor), Tail(gs), outputs, index)
  ELSE NonePadded(Append(acc, outputs[index + 1]), Tail(gs), outputs, index + 1)

GradEmitted(ops1) ==
  /\ outer_ops' = ops1
  /\ grad_while_op' = Len(ops1)
  /\ none_padded_outputs' =
       NonePadded(<<>>, grads, [i \in DOMAIN grad_loop_vars |-> T("outer", Len(ops1), i)], 2)

GradEmit ==
  /\ pc = "grad_emit"
  /\ GradEmitted(EmitWhile(outer_ops, grad_loop_vars))
  /\ pc' = "grad_returned"
  /\ UNCHANGED <<err, spec, loop_vars, shape_invariants, cond_graph, body_graph, while_op,
                 result, grads_in, grads, body_grad_graph, cond_grad_graph, grad_args,
                 requests>>
  /\ UNCHANGED runVars

\* ------------------------------------------------------------ execution
\* The values the two While ops compute, as far as the counters and the
\* TensorLists go: a number, a list of items, an item (the value a forward
\* tensor had in one iteration) or any other value.
Num(n) == [k |-> "num", n |-> n, l |-> <<>>]

ListV(l) == [k |-> "list", n |-> 0, l |-> l]

Item(t, iteration) == [k |-> "item", n |-> iteration, l |-> <<t>>]

Opaque == [k |-> "any", n |-> 0, l |-> <<>>]

\* TensorListPopBack of an empty list.
Underflow == [k |-> "underflow", n |-> 0, l |-> <<>>]

PopFront(l) == IF l = <<>> THEN <<>> ELSE SubSeq(l, 1, Len(l) - 1)

PopLast(l) == IF l = <<>> THEN Underflow ELSE l[Len(l)]

\* The value of tensor t of a function graph called on vals in iteration
\* `iteration`.  The only constants the two bodies create are the 1 of
\* `counter + 1`.
RECURSIVE Eval(_, _, _, _)
Eval(graph, vals, iteration, t) ==
  CASE graph.ops[t.op].type = "Placeholder" -> vals[IndexOf(t, graph.inputs)]
    [] graph.ops[t.op].type = "Identity" ->
         Eval(graph, vals, iteration, graph.ops[t.op].ins[1])
    [] graph.ops[t.op].type = "Const" -> Num(1)
    [] graph.ops[t.op].type = "Add" ->
         Num(Eval(graph, vals, iteration, graph.ops[t.op].ins[1]).n
             + Eval(graph, vals, iteration, graph.ops[t.op].ins[2]).n)
    [] graph.ops[t.op].type = "Less" ->
         Num(IF Eval(graph, vals, iteration, graph.ops[t.op].ins[1]).n
                < Eval(graph, vals, iteration, graph.ops[t.op].ins[2]).n
             THEN 1 ELSE 0)
    [] graph.ops[t.op].type = "TensorListPushBack" ->
         ListV(Append(Eval(graph, vals, iteration, graph.ops[t.op].ins[1]).l,
                      Item(graph.ops[t.op].ins[2], iteration)))
    [] graph.ops[t.op].type = "TensorListPopBack" ->
         IF t.out = 1
         THEN ListV(PopFront(Eval(graph, vals, iteration, graph.ops[t.op].ins[1]).l))
         ELSE PopLast(Eval(graph, vals, iteration, graph.ops[t.op].ins[1]).l)
    [] OTHER -> Opaque

\* One invocation of a body: the new values of the loop variables.
CallBody(graph, vals, iteration) ==
  [i \in DOMAIN graph.outputs |-> Eval(graph, vals, iteration, graph.outputs[i])]

\* The value of an input of a While op when the op starts: loop variable 0 is
\* constant(0.) in both ops, an output of the forward While op has the value
\* the forward loop ended with.
InputValue(ops, i, t) ==
  IF i = 1 THEN Num(0)
  ELSE IF ops[t.op].type = "EmptyTensorList" THEN ListV(<<>>)
  ELSE IF ops[t.op].type = "While" THEN fwd_vals[t.out]
  ELSE Opaque

\* The forward While op starts.
ForwardStart ==
  /\ pc = "grad_returned"
  /\ fwd_vals' = [i \in DOMAIN WhileInputs |-> InputValue(outer_ops, i, WhileInputs[i])]
  /\ pc' = "forward"
  /\ UNCHANGED <<err, fwdVars, gradVars, fwd_iters, bwd_vals, bwd_iters, popped>>

\* cond is true (that depends on the caller's data): body is invoked.
ForwardStep ==
  /\ pc = "forward"
  /\ fwd_iters < MaxIters
  /\ fwd_vals' = CallBody(body_graph, fwd_vals, fwd_iters + 1)
  /\ fwd_iters' = fwd_iters + 1
  /\ UNCHANGED <<pc, err, fwdVars, gradVars, bwd_vals, bwd_iters, popped>>

\* cond is false: the forward While op ends and the backward one starts.
ForwardEnd ==
  /\ pc = "forward"
  /\ bwd_vals' = [i \in DOMAIN outer_ops[grad_while_op].ins |->
                    InputValue(outer_ops, i, outer_ops[grad_while_op].ins[i])]
  /\ pc' = "backward"
  /\ UNCHANGED <<err, fwdVars, gradVars, fwd_vals, fwd_iters, bwd_iters, popped>>

\* cond_grad_graph called on the loop variables.
GradCondTrue ==
  Eval(cond_grad_graph, bwd_vals, bwd_iters + 1, cond_grad_graph.outputs[1]).n = 1

\* What the TensorListPopBack ops of the gradient body produce in one
\* invocation: for each forward tensor resolved to a pop, the popped value.
Pops(graph, vals, iteration) ==
  { [k |-> iteration, of |-> graph.indirect_captures[i].k,
     val |-> Eval(graph, vals, iteration, graph.indirect_captures[i].v)] :
      i \in { j \in DOMAIN graph.indirect_captures :
                graph.ops[graph.indirect_captures[j].v.op].type = "TensorListPopBack" } }

BackwardStep ==
  /\ pc = "backward"
  /\ bwd_iters <= MaxIters
  /\ GradCondTrue
  /\ bwd_vals' = CallBody(body_grad_graph, bwd_vals, bwd_iters + 1)
  /\ popped' = popped \cup Pops(body_grad_graph, bwd_vals, bwd_iters + 1)
  /\ bwd_iters' = bwd_iters + 1
  /\ UNCHANGED <<pc, err, fwdVars, gradVars, fwd_vals, fwd_iters>>

BackwardEnd ==
  /\ pc = "backward"
  /\ ~GradCondTrue
  /\ pc' = "done"
  /\ UNCHANGED <<err, fwdVars, gradVars, runVars>>

\* ---------------------------------------------------- the specifications
\* Forward and gradient assembly, without execution.
InitGrad ==
  \/ InitWith({ List(<<X1, X2>>), List(<<TA>>) },
              {"Mul"},
              {"none"},
              {"same"},
              {<<>>},
              {<<>>, <<ExtR>>},
              {"none"},
              BOOLEAN)
  \/ InitWith({ List(<<X1, X2>>) }, {"Mul"}, {"none"}, {"same"}, {<<>>}, {<<>>},
              {"VarHandleOp"}, {FALSE})
  \/ InitWith({ List(<<X1, X2>>) }, {"grow"}, {"none", "badstruct"}, {"same", "bare"},
              {<<>>, <<ExtC>>}, {<<ExtC>>}, {"none"}, {FALSE})
  \/ InitWith({ List(<<X1>>) }, {"Mul"}, {"none"}, {"same"}, {<<>>}, {<<>>, <<ExtR>>},
              {"While"}, {FALSE})
  \/ InitWith({ List(<<X1, XR>>) }, {"Mul"}, {"none"}, {"same"}, {<<>>}, {<<>>},
              {"none"}, BOOLEAN)

NextGrad ==
  \/ WhileLoopStart
  \/ BuildCond
  \/ BuildBody
  \/ ReconcileCaptures
  \/ Accumulate
  \/ Validate
  \/ Emit
  \/ WhileGrad
  \/ GradRequest
  \/ GradFn
  \/ GradAccumulate
  \/ BuildGradCond
  \/ GradValidate
  \/ GradEmit

SpecGrad == InitGrad /\ [][NextGrad]_vars

\* The whole program: assembly of both While ops, then their execution.
Init ==
  InitWith({ List(<<X1>>), List(<<TA>>) },
           {"pass", "Mul"},
           {"none"},
           {"same"},
           {<<>>},
           {<<>>, <<ExtR>>},
           {"none"},
           BOOLEAN)

Next ==
  \/ NextGrad
  \/ ForwardStart
  \/ ForwardStep
  \/ ForwardEnd
  \/ BackwardStep
  \/ BackwardEnd

Spec == Init /\ [][Next]_vars

\* ------------------------------------------------------------ properties
\* C1: the forward counter starts at 0 and counts the forward body
\* invocations; the backward counter starts at 0 and counts the backward body
\* invocations; total_iterations is the forward While op's counter output,
\* every backward iteration passes it through unchanged; the backward cond is
\* counter < total_iterations; so the backward body runs exactly as many times
\* as the forward body did.
CounterInvariant ==
  /\ pc \in {"forward", "backward", "done"} => fwd_vals[1] = Num(fwd_iters)
  /\ pc \in {"backward", "done"} =>
       /\ outer_ops[grad_while_op].ins[2] = T("outer", while_op, 1)
       /\ bwd_vals[1] = Num(bwd_iters)
       /\ bwd_vals[2] = Num(fwd_iters)
       /\ GradCondTrue <=> bwd_iters < fwd_iters
       /\ bwd_iters <= fwd_iters
  /\ pc = "done" => bwd_iters = fwd_iters

\* C1, its case: a forward loop of MaxIters iterations and its backward loop
\* have both ended.
CounterInvariantWitness == pc = "done" /\ fwd_iters = MaxIters /\ bwd_iters = MaxIters

\* The forward tensors the gradient body resolved to a pop of an accumulator.
PoppedTensors ==
  { body_grad_graph.indirect_captures[i].k :
      i \in { j \in DOMAIN body_grad_graph.indirect_captures :
                body_grad_graph.ops[body_grad_graph.indirect_captures[j].v.op].type
                  = "TensorListPopBack" } }

\* C2: backward iteration k pops, for each accumulated intermediate it
\* resolved, the value the forward iteration fwd_iters - k + 1 appended; each
\* backward iteration pops once from each accumulator in use; with no forward
\* iteration nothing is popped.
AccumulatorPairing ==
  /\ \A e \in popped : e.val = Item(e.of, fwd_iters - e.k + 1)
  /\ pc \in {"backward", "done"} =>
       \A t \in PoppedTensors : \A k \in 1..bwd_iters :
         \E e \in popped : e.of = t /\ e.k = k
  /\ fwd_iters = 0 => popped = {}

\* C2, its case: two forward iterations, and the second backward iteration has
\* popped the value of the first forward iteration.
AccumulatorPairingWitness ==
  /\ pc = "done"
  /\ fwd_iters = 2
  /\ \E e \in popped : e.k = 2 /\ e.val.k = "item" /\ e.val.n = 1

\* C4 as stated: one entry per input of the forward While op; entry i is None
\* exactly when the incoming gradient of output i is None, and else it is
\* output 2 + k of the backward While op, k the number of incoming gradients
\* present below i.
GradPerInputAsStated ==
  pc = "grad_returned" =>
    /\ Len(none_padded_outputs) = Len(WhileInputs)
    /\ \A i \in DOMAIN none_padded_outputs :
         IF grads_in[i] = NoTensor
         THEN none_padded_outputs[i] = NoTensor
         ELSE none_padded_outputs[i] =
                T("outer", grad_while_op,
                  3 + Cardinality({ j \in 1..(i - 1) : grads_in[j] # NoTensor }))

\* C4, amended: one entry per input of the forward While op; entry i is None
\* exactly when the incoming gradient of output i is None or output i is a
\* TensorArray handle, and else it is output 2 + k of the backward While op, k
\* the number of entries below i that are not None.
GradPerInput ==
  pc = "grad_returned" =>
    /\ Len(none_padded_outputs) = Len(WhileInputs)
    /\ \A i \in DOMAIN none_padded_outputs :
         IF grads_in[i] = NoTensor \/ is_tensor_array_handle(outer_ops, WhileOutputs[i])
         THEN none_padded_outputs[i] = NoTensor
         ELSE none_padded_outputs[i] =
                T("outer", grad_while_op,
                  3 + Cardinality({ j \in 1..(i - 1) :
                                      /\ grads_in[j] # NoTensor
                                      /\ ~is_tensor_array_handle(outer_ops,
                                                                 WhileOutputs[j]) }))

\* C4, its case: _WhileGrad has returned; the gradient of a TensorArray handle
\* was passed and its entry is None, with entries that are not None after it.
GradPerInputWitness ==
  /\ pc = "grad_returned"
  /\ \E i \in DOMAIN none_padded_outputs :
       /\ grads_in[i] # NoTensor
       /\ none_padded_outputs[i] = NoTensor
       /\ \E j \in DOMAIN none_padded_outputs : j > i /\ none_padded_outputs[j] # NoTensor

\* C7: _WhileGrad fails for a missing gradient exactly when some output of the
\* forward While op that is trainable and not a resource has no incoming
\* gradient.
MissingGradientFatal ==
  grads_in # <<>> =>
    ((pc = "failed" /\ err = "missing_gradient")
       <=> \E i \in DOMAIN grads_in :
             /\ grads_in[i] = NoTensor
             /\ DtypeOf(outer_ops, WhileOutputs[i]) # "resource"
             /\ IsTrainable(outer_ops, WhileOutputs[i]))

\* C7, its case: a gradient that may be absent is absent (that of a resource
\* or of an int32 output), and _WhileGrad has gone on to build the gradient
\* function.
MissingGradientFatalWitness ==
  /\ pc = "grad_fn"
  /\ \E i \in DOMAIN grads_in :
       grads_in[i] = NoTensor /\ DtypeOf(outer_ops, WhileOutputs[i]) = "resource"

\* The While ops of the outer graph.
WhileOps == { i \in DOMAIN outer_ops : outer_ops[i].type = "While" }

\* C10: a call that fails has emitted no While op, a call that returns has
\* emitted exactly one (while_loop is the first call, _WhileGrad the second).
FailsBeforeEmit ==
  /\ pc = "failed" => Cardinality(WhileOps) = (IF grads_in = <<>> THEN 0 ELSE 1)
  /\ pc = "returned" => WhileOps = {while_op}
  /\ pc = "grad_returned" => WhileOps = {while_op, grad_while_op} /\ while_op # grad_while_op

\* C10, its case: _WhileGrad has failed on the capture of a tensor that is not
\* in the forward graph.
FailsBeforeEmitWitness == pc = "failed" /\ grads_in # <<>> /\ err = "out_of_scope"

\* C3 as stated: what while_loop returns has the structure of loop_vars, with
\* as many leaves.
SameStructureAsStated ==
  pc = "returned" =>
    /\ same_structure(result, orig_loop_vars)
    /\ Len(flatten(result)) = num_flattened_outputs

\* C3, amended: with two or more flattened loop variables while_loop returns
\* the structure of loop_vars, its leaves the identities of outputs 1.. of the
\* While op in order (a TensorArray a TensorArray again, on its handle); with
\* exactly one it returns that output's identity itself, in no structure.
SameStructureReturned ==
  pc = "returned" =>
    IF num_flattened_outputs = 1
    THEN result = TensorLeaf(T("outer", while_op + 2, 1))
    ELSE /\ same_structure(result, orig_loop_vars)
         /\ Len(flatten(result)) = num_flattened_outputs
         /\ \A i \in 1..num_flattened_outputs :
              /\ flatten(result)[i].t = T("outer", while_op + 1 + i, 1)
              /\ flatten(result)[i].kind = flatten(orig_loop_vars)[i].kind
              /\ flatten(result)[i].handle = flatten(orig_loop_vars)[i].handle
              /\ outer_ops[while_op + 1 + i].type = "Identity"
              /\ outer_ops[while_op + 1 + i].ins = <<T("outer", while_op, 1 + i)>>

\* C3, its case: while_loop has returned for a nested structure of two loop
\* variables, with captures and accumulators among the While op's outputs.
SameStructureReturnedWitness ==
  /\ pc = "returned"
  /\ orig_loop_vars = List(<<X1, List(<<X2>>)>>)
  /\ spec.body_refs # <<>>

\* C5: while_loop fails with a shape error exactly when, validation reached,
\* the shape some loop variable has after body is not an instance of its
\* shape invariant (its initial shape when none is given): an unknown
\* invariant takes any shape, else the ranks are equal and each dimension the
\* invariant knows is equal; a body that keeps every shape passes when the
\* invariants are the initial shapes.
ShapeErrorExact ==
  /\ (pc \in {"emit", "returned"} \/ (pc = "failed" /\ err \in {"shape", "arity"})) =>
       ((pc = "failed" /\ err = "shape")
          <=> \E i \in 1..num_flattened_outputs :
                ~ \/ ~UserInvariant(spec.inv,
                                    ShapeOf(OuterInit, flatten(orig_loop_vars)[i].t)).known
                  \/ /\ ShapeOf(body_graph.ops, body_graph.outputs[1 + i]).known
                     /\ Len(ShapeOf(body_graph.ops, body_graph.outputs[1 + i]).dims)
                          = Len(ShapeOf(OuterInit, flatten(orig_loop_vars)[i].t).dims)
                     /\ \A d \in DOMAIN ShapeOf(OuterInit, flatten(orig_loop_vars)[i].t).dims :
                          \/ spec.inv = "wild"
                          \/ ShapeOf(body_graph.ops, body_graph.outputs[1 + i]).dims[d]
                               = ShapeOf(OuterInit, flatten(orig_loop_vars)[i].t).dims[d])
  /\ (/\ spec.inv \in {"none", "same"}
      /\ \A i \in DOMAIN spec.kinds : spec.kinds[i] \in {"pass", "Mul", "tawrite"})
       => err # "shape"

\* C5, its case: a shape error under invariants of unknown dimensions (body
\* has changed the rank of a loop variable).
ShapeErrorExactWitness == pc = "failed" /\ err = "shape" /\ spec.inv = "wild"

\* C6: while_loop fails on the capture assertion, no While op emitted, only
\* when cond and body close over a common external tensor, and it goes past
\* the assertion only when they close over none in common.
CaptureAmbiguity ==
  /\ (pc = "failed" /\ err = "ambiguous") =>
       /\ Range(spec.cond_refs) \cap Range(spec.body_refs) # {}
       /\ WhileOps = {}
       /\ while_op = 0
  /\ (pc \in {"accumulate", "validate", "emit", "returned"}
        \/ (pc = "failed" /\ err \in {"shape", "arity"})) =>
       Range(spec.cond_refs) \cap Range(spec.body_refs) = {}

\* C6, its case: cond and body close over the same tensor and while_loop has
\* failed.
CaptureAmbiguityWitness ==
  /\ pc = "failed"
  /\ err = "ambiguous"
  /\ Range(spec.cond_refs) \cap Range(spec.body_refs) # {}

\* An external tensor that is no accumulator (no empty TensorList).
NotAccumulator(t) == outer_ops[t.op].type # "EmptyTensorList"

IsAccumulator(t) == outer_ops[t.op].type = "EmptyTensorList"

NotBodyCapture(t) == ~InSeq(t, external_captures(body_graph))

\* The external tensors cond and body close over.
CapturedExternals ==
  { t \in Range(external_captures(cond_graph)) \cup Range(external_captures(body_graph)) :
      NotAccumulator(t) }

\* The While op's inputs are ordered counter, user loop variables, captures of
\* cond, captures of body, accumulators.
InputsOrdered ==
  WhileInputs =
    <<WhileInputs[1]>>
      \o Tensors(flatten(tensor_array_to_flow(orig_loop_vars)))
      \o SelectSeq(external_captures(cond_graph), NotBodyCapture)
      \o SelectSeq(external_captures(body_graph), NotAccumulator)
      \o SelectSeq(external_captures(body_graph), IsAccumulator)

\* C9 as stated: each external tensor cond or body closes over is exactly one
\* input of the While op, at an index where cond and body have their
\* placeholder of it, and where body outputs its own input; the inputs are
\* ordered counter, user loop variables, cond captures, body captures,
\* accumulators.
CapturesInvariantAsStated ==
  pc = "returned" =>
    /\ \A t \in CapturedExternals :
         /\ Cardinality({ i \in DOMAIN WhileInputs : WhileInputs[i] = t }) = 1
         /\ \A i \in DOMAIN WhileInputs :
              WhileInputs[i] = t =>
                /\ cond_graph.inputs[i] = Lookup([j \in DOMAIN cond_graph.captures |->
                                                    [k |-> cond_graph.captures[j].ext,
                                                     v |-> cond_graph.captures[j].int]], t)
                /\ InSeq(t, external_captures(body_graph)) =>
                     body_graph.inputs[i] =
                       Lookup([j \in DOMAIN body_graph.captures |->
                                 [k |-> body_graph.captures[j].ext,
                                  v |-> body_graph.captures[j].int]], t)
                /\ body_graph.outputs[i] = body_graph.inputs[i]
    /\ InputsOrdered

\* C9, amended: each external tensor cond or body closes over is exactly one
\* input of the While op after the user loop variables (it is one more input
\* when it is also passed as a loop variable), at an index where cond and body
\* have their placeholder of it, and where body outputs its own input, or the
\* Identity of it (a capture of cond when control dependencies are added); the
\* inputs are ordered counter, user loop variables, cond captures, body
\* captures, accumulators.
CapturesInvariant ==
  pc = "returned" =>
    /\ \A t \in CapturedExternals :
         /\ Cardinality({ i \in DOMAIN WhileInputs :
                            i > 1 + num_flattened_outputs /\ WhileInputs[i] = t }) = 1
         /\ \A i \in DOMAIN WhileInputs :
              (i <= 1 + num_flattened_outputs /\ WhileInputs[i] = t) =>
                (i > 1 /\ flatten(orig_loop_vars)[i - 1].t = t)
         /\ \A i \in DOMAIN WhileInputs :
              (i > 1 + num_flattened_outputs /\ WhileInputs[i] = t) =>
                /\ cond_graph.inputs[i] = Lookup([j \in DOMAIN cond_graph.captures |->
                                                    [k |-> cond_graph.captures[j].ext,
                                                     v |-> cond_graph.captures[j].int]], t)
                /\ InSeq(t, external_captures(body_graph)) =>
                     body_graph.inputs[i] =
                       Lookup([j \in DOMAIN body_graph.captures |->
                                 [k |-> body_graph.captures[j].ext,
                                  v |-> body_graph.captures[j].int]], t)
                /\ \/ body_graph.outputs[i] = body_graph.inputs[i]
                   \/ /\ spec.in_defun
                      /\ ~InSeq(t, external_captures(body_graph))
                      /\ body_graph.ops[body_graph.outputs[i].op].type = "Identity"
                      /\ body_graph.ops[body_graph.outputs[i].op].ins
                           = <<body_graph.inputs[i]>>
    /\ InputsOrdered

\* C9, its case: while_loop has returned, cond has a capture, body has two and
\* control dependencies are added.
CapturesInvariantWitness ==
  /\ pc = "returned"
  /\ spec.cond_refs # <<>>
  /\ Len(spec.body_refs) = 2
  /\ spec.in_defun

\* ------------------------------------------- accumulation, a second time
\* Lines 185..208 run once more over the body they have run over:
\* _get_intermediates, then one accumulator for each tensor it returns.
ReAccumulate ==
  /\ pc = "validate"
  /\ UNCHANGED <<gradVars, runVars>>
  /\ Accumulated(AccumulateAll([n |-> 0, outer |-> outer_ops, lv |-> loop_vars,
                                cond |-> cond_graph, body |-> body_graph],
                               get_intermediates(body_graph, "body")))
  /\ pc' = "reaccumulated"
  /\ UNCHANGED <<err, spec, shape_invariants, while_op, result>>

NextReAccumulate ==
  \/ WhileLoopStart
  \/ BuildCond
  \/ BuildBody
  \/ ReconcileCaptures
  \/ Accumulate
  \/ ReAccumulate

SpecReAccumulate == InitAssembly /\ [][NextReAccumulate]_vars

\* The TensorListPushBack ops of a graph.
PushBacks(graph) == { i \in DOMAIN graph.ops : graph.ops[i].type = "TensorListPushBack" }

\* C8 as stated: the second run leaves the number of inputs and the number of
\* outputs of the body as they are.
ReAccumulateAsStated ==
  [][pc' = "reaccumulated" =>
       /\ Len(body_graph'.inputs) = Len(body_graph.inputs)
       /\ Len(body_graph'.outputs) = Len(body_graph.outputs)]_vars

\* C8, amended: the second run gives no tensor the first run accumulated a
\* second accumulator, and none to the TensorList placeholders; it gives one
\* to each output of the first run's TensorListPushBack ops, so the body has
\* as many more inputs and outputs as the first run made accumulators.
ReAccumulateNoDuplicate ==
  [][pc' = "reaccumulated" =>
       /\ \A i \in PushBacks(body_graph) :
            Cardinality({ j \in PushBacks(body_graph') :
                            body_graph'.ops[j].ins[2] = body_graph.ops[i].ins[2] }) = 1
       /\ \A j \in PushBacks(body_graph') \ PushBacks(body_graph) :
            \E i \in PushBacks(body_graph) : body_graph'.ops[j].ins[2] = T("body", i, 1)
       /\ Len(body_graph'.inputs) = Len(body_graph.inputs) + Cardinality(PushBacks(body_graph))
       /\ Len(body_graph'.outputs)
            = Len(body_graph.outputs) + Cardinality(PushBacks(body_graph))]_vars

\* C8, its case: the accumulation has run twice over a body with captures.
ReAccumulateNoDuplicateWitness ==
  /\ pc = "reaccumulated"
  /\ spec.body_refs # <<>>
  /\ Cardinality(PushBacks(body_graph)) > 2

\* --------------------------------------------------- the capture rule
\* The tensors a capture may be asked for: those of the gradient body, of the
\* forward body and of the outer graph.
CaptureCandidates ==
  TensorsOf(body_grad_graph, "grad") \cup TensorsOf(get_body_graph, "body")
    \cup { t \in [g : {"outer"}, op : DOMAIN outer_ops, out : 1..2] :
             t.out <= Len(outer_ops[t.op].dtypes) }

\* C11: a capture that is not whitelisted, of a tensor that is neither of the
\* gradient body nor of its forward body, raises and leaves the gradient body
\* as it is (no capture, no input, no operation); of a tensor of one of the
\* two it does not raise this error; a whitelisted capture never raises it,
\* and of a tensor outside the two graphs it returns the placeholder the
\* tensor is captured by.  A call that failed this way has captured no tensor
\* but accumulators and loop-invariant resources.
OutOfScopeCapture ==
  /\ pc = "grad_fn" =>
       \A t \in CaptureCandidates :
         /\ t.g \notin {"grad", "body"} =>
              GradCapture(body_grad_graph, t, FALSE) = Raise(body_grad_graph, "out_of_scope")
         /\ t.g \in {"grad", "body"} =>
              GradCapture(body_grad_graph, t, FALSE).err # "out_of_scope"
         /\ GradCapture(body_grad_graph, t, TRUE).err # "out_of_scope"
         /\ t.g \notin {"grad", "body"} =>
              /\ GradCapture(body_grad_graph, t, TRUE).err = ""
              /\ Lookup([j \in DOMAIN body_grad_graph.captures |->
                           [k |-> body_grad_graph.captures[j].ext,
                            v |-> body_grad_graph.captures[j].int]], t)
                   \in {NoTensor, GradCapture(body_grad_graph, t, TRUE).t}
              /\ InSeq([ext |-> t, int |-> GradCapture(body_grad_graph, t, TRUE).t],
                       GradCapture(body_grad_graph, t, TRUE).graph.captures)
  /\ (pc = "failed" /\ err = "out_of_scope") =>
       \A j \in DOMAIN body_grad_graph.captures :
         \/ body_grad_graph.captures[j].ext \in Range(WhileInputs)
         \/ body_grad_graph.captures[j].ext \in Range(WhileOutputs)

\* C11, its case: the differentiator's second request is for a tensor outside
\* the two graphs, after a first that resolved, and _WhileGrad has failed.
OutOfScopeCaptureWitness ==
  /\ pc = "failed"
  /\ err = "out_of_scope"
  /\ Len(requests) = 1
  /\ body_grad_graph.captures # <<>>

\* The resource tensors of the forward body.
BodyResources ==
  { t \in TensorsOf(get_body_graph, "body") : DtypeOf(get_body_graph.ops, t) = "resource" }

\* The tensor a capture of t is resolved for: Identity ops are gone through.
Source(t) == SkipIdentity(get_body_graph.ops, t)

\* The input of the forward body a resource tensor stands for: itself, or the
\* input of a nested While op at the index of the tensor among its outputs (0
\* when there is none).
InvariantIndex(r) ==
  IF InSeq(r, get_body_graph.inputs) THEN IndexOf(r, get_body_graph.inputs)
  ELSE IF get_body_graph.ops[r.op].type = "While"
          /\ InSeq(get_body_graph.ops[r.op].ins[r.out], get_body_graph.inputs)
  THEN IndexOf(get_body_graph.ops[r.op].ins[r.out], get_body_graph.inputs)
  ELSE 0

PopBacks(graph) == { i \in DOMAIN graph.ops : graph.ops[i].type = "TensorListPopBack" }

ArityUnreachable ==
  /\ err # "arity"
  /\ pc = "validate" =>
       /\ Len(cond_graph.outputs) = 1
       /\ Len(cond_graph.inputs) = Len(loop_vars)
       /\ Len(body_graph.inputs) = Len(loop_vars)
       /\ Len(body_graph.outputs) = Len(loop_vars)
  /\ pc = "grad_validate" =>
       /\ Len(cond_grad_graph.outputs) = 1
       /\ Len(cond_grad_graph.inputs) = Len(grad_loop_vars)
       /\ Len(body_grad_graph.inputs) = Len(grad_loop_vars)
       /\ Len(body_grad_graph.outputs) = Len(grad_loop_vars)

\* C13, its case: _WhileGrad validates a gradient body that has captured an
\* accumulator of the forward loop and a resource, and has accumulators of
\* its own, over a forward loop with a capture.
ArityUnreachableWitness ==
  /\ pc = "grad_validate"
  /\ spec.body_refs # <<>>
  /\ body_grad_graph.popped_tensor_lists # <<>>
  /\ \E i \in DOMAIN body_grad_graph.captures :
       DtypeOf(outer_ops, body_grad_graph.captures[i].ext) = "resource"
  /\ PushBacks(body_grad_graph) # {}

\* Every TensorListPushBack of the graph takes a list that is an input of the
\* graph and its result is the output of the graph at the same index.
Threaded(graph, gname) ==
  \A i \in PushBacks(graph) :
    /\ InSeq(graph.ops[i].ins[1], graph.inputs)
    /\ IndexOf(graph.ops[i].ins[1], graph.inputs) = IndexOf(T(gname, i, 1), graph.outputs)

\* C14: an accumulator is at one index among the inputs and the outputs of
\* its body: those while_loop adds to the forward body, those _WhileGrad adds
\* to the gradient body, and, once _create_grad_func has returned, the list
\* each captured forward accumulator is popped to.
AccumulatorThreaded ==
  /\ Threaded(body_graph, "body")
  /\ Threaded(body_grad_graph, "grad")
  /\ pc \in {"grad_accumulate", "grad_cond", "grad_validate", "grad_emit", "grad_returned",
              "forward", "backward", "done"} =>
       \A j \in DOMAIN body_grad_graph.popped_tensor_lists :
         /\ InSeq(body_grad_graph.popped_tensor_lists[j].k, body_grad_graph.inputs)
         /\ IndexOf(body_grad_graph.popped_tensor_lists[j].k, body_grad_graph.inputs)
              = IndexOf(body_grad_graph.popped_tensor_lists[j].v, body_grad_graph.outputs)

\* C14, its case: _WhileGrad has returned; the gradient body pops two forward
\* accumulators and has accumulators of its own, and the forward body has a
\* capture before its accumulators.
AccumulatorThreadedWitness ==
  /\ pc = "grad_returned"
  /\ Len(body_grad_graph.popped_tensor_lists) = 2
  /\ PushBacks(body_grad_graph) # {}
  /\ PushBacks(body_graph) # {}
  /\ spec.body_refs # <<>>


\* What the differentiator may use of the forward body that is no resource.
BodyValues ==
  { t \in Requestable(get_body_graph, "body") : DtypeOf(get_body_graph.ops, t) # "resource" }

\* C15: no call fails for an un-accumulated intermediate. Of the forward body
\* that while_loop built, every tensor the differentiator may use that is no
\* resource has, Identity ops gone through, an accumulator: the result of a
\* TensorListPushBack that takes it, output by the body at the index its list
\* is an input at; and the gradient graph captures the tensor without error.
UnaccumulatedUnreachable ==
  /\ err # "unaccumulated"
  /\ pc = "grad_fn" =>
       \A t \in BodyValues :
         /\ GradCapture(body_grad_graph, t, FALSE).err = ""
         /\ \E i \in PushBacks(get_body_graph) :
              /\ get_accumulator(get_body_graph, "body", Source(t)) = T("body", i, 1)
              /\ InSeq(Source(t), get_body_graph.ops[i].ins)
              /\ InSeq(get_body_graph.ops[i].ins[1], get_body_graph.inputs)
              /\ IndexOf(get_body_graph.ops[i].ins[1], get_body_graph.inputs)
                   = IndexOf(T("body", i, 1), get_body_graph.outputs)

\* C15, its case: the differentiator has used two tensors of a forward body
\* that holds an Identity op, and the gradient graph popped both.
UnaccumulatedUnreachableWitness ==
  /\ pc = "grad_fn"
  /\ Len(requests) >= 2
  /\ Len(body_grad_graph.indirect_captures) >= 2
  /\ body_grad_graph.popped_tensor_lists # <<>>
  /\ \E t \in BodyValues : Source(t) # t

\* The entries of _indirect_captures whose key is no resource.
PoppedEntries(graph) ==
  { i \in DOMAIN graph.indirect_captures :
      DtypeOf(get_body_graph.ops, graph.indirect_captures[i].k) # "resource" }

\* The gradient body resolved every forward tensor under one key, popped one
\* accumulator per key that is no resource, and keeps one popped list per pop.
PoppedOnce(graph) ==
  /\ \A i, j \in DOMAIN graph.indirect_captures :
       graph.indirect_captures[i].k = graph.indirect_captures[j].k => i = j
  /\ Cardinality(PopBacks(graph)) = Cardinality(PoppedEntries(graph))
  /\ \A i \in PoppedEntries(graph) :
       /\ graph.indirect_captures[i].v.op \in PopBacks(graph)
       /\ graph.indirect_captures[i].v.out = 2
       /\ \A j \in PoppedEntries(graph) :
            graph.indirect_captures[i].v = graph.indirect_captures[j].v => i = j
  /\ Len(graph.popped_tensor_lists) = Cardinality(PopBacks(graph))
  /\ \A i \in DOMAIN graph.popped_tensor_lists :
       /\ InSeq(graph.popped_tensor_lists[i].k, internal_captures(graph))
       /\ graph.popped_tensor_lists[i].v.op \in PopBacks(graph)
       /\ graph.popped_tensor_lists[i].v.out = 1
       /\ graph.ops[graph.popped_tensor_lists[i].v.op].ins = <<graph.popped_tensor_lists[i].k>>
       /\ \A j \in DOMAIN graph.popped_tensor_lists :
            graph.popped_tensor_lists[i].k = graph.popped_tensor_lists[j].k => i = j

\* C16: in the gradient body every forward tensor is resolved at most once.
\* The TensorListPopBack ops are as many as the distinct forward tensors that
\* are no resources and were requested (an Identity's output counted as its
\* source); a request for a tensor resolved before returns the tensor the
\* first request returned and adds nothing, a request for another adds one
\* pop; and once _create_grad_func returned, the list each captured
\* accumulator was popped to is an output of the body exactly once.
ResolvedOnce ==
  /\ PoppedOnce(body_grad_graph)
  /\ { r \in Range(requests) : r.g = "grad" /\ r.op \in PopBacks(body_grad_graph) }
       = { body_grad_graph.indirect_captures[i].v : i \in PoppedEntries(body_grad_graph) }
  /\ pc = "grad_fn" =>
       \A t \in BodyValues :
         /\ GradCapture(body_grad_graph, t, FALSE).err = ""
         /\ PoppedOnce(GradCapture(body_grad_graph, t, FALSE).graph)
         /\ IF HasKey(body_grad_graph.indirect_captures, Source(t))
            THEN /\ GradCapture(body_grad_graph, t, FALSE).graph = body_grad_graph
                 /\ GradCapture(body_grad_graph, t, FALSE).t
                      = Lookup(body_grad_graph.indirect_captures, Source(t))
            ELSE /\ Cardinality(PopBacks(GradCapture(body_grad_graph, t, FALSE).graph))
                      = Cardinality(PopBacks(body_grad_graph)) + 1
                 /\ HasKey(GradCapture(body_grad_graph, t, FALSE).graph.indirect_captures,
                           Source(t))
  /\ pc \in {"grad_accumulate", "grad_cond", "grad_validate", "grad_emit", "grad_returned"} =>
       \A i \in DOMAIN body_grad_graph.popped_tensor_lists :
         Cardinality({ o \in DOMAIN body_grad_graph.outputs :
                         body_grad_graph.outputs[o] = body_grad_graph.popped_tensor_lists[i].v })
           = 1

\* C16, its case: the differentiator asked twice, the second time for the
\* tensor it asked for first or for an Identity of it, and the gradient body,
\* returned by _create_grad_func, holds one pop.
ResolvedOnceWitness ==
  /\ pc = "grad_accumulate"
  /\ Len(requests) = 2
  /\ requests[1] = requests[2]
  /\ Cardinality(PopBacks(body_grad_graph)) = 1
  /\ Len(body_grad_graph.popped_tensor_lists) = 1

\* The outputs of the operations of a graph less the loop counter input, the
\* resources, the outputs of Identity ops and the tensors an accumulator is
\* found for.
Candidates(graph, gname) ==
  { o \in TensorsOf(graph, gname) :
      ~ \/ o = graph.inputs[1]
        \/ DtypeOf(graph.ops, o) = "resource"
        \/ graph.ops[o.op].type = "Identity"
        \/ get_accumulator(graph, gname, o) # NoTensor }

\* _get_intermediates returns the candidates of the graph, each once.
SelectsCandidates(graph, gname) ==
  graph.inputs # <<>> =>
    /\ Range(get_intermediates(graph, gname)) = Candidates(graph, gname)
    /\ Len(get_intermediates(graph, gname)) = Cardinality(Candidates(graph, gname))

\* C17: of the forward body and of the gradient body, before their
\* accumulators are added and after, _get_intermediates selects exactly the
\* outputs of the operations that are not the loop counter input, no
\* resources, no outputs of Identity ops and have no accumulator found.
IntermediatesExact ==
  /\ SelectsCandidates(body_graph, "body")
  /\ SelectsCandidates(body_grad_graph, "grad")

\* C17, its case: _WhileGrad is about to accumulate the tensors of a gradient
\* body that holds a resource and pops, for a forward body that holds a
\* resource, an Identity op and its accumulators.
IntermediatesExactWitness ==
  /\ pc = "grad_accumulate"
  /\ get_intermediates(body_grad_graph, "grad") # <<>>
  /\ \E o \in TensorsOf(body_grad_graph, "grad") : DtypeOf(body_grad_graph.ops, o) = "resource"
  /\ PopBacks(body_grad_graph) # {}
  /\ \E o \in TensorsOf(body_graph, "body") : DtypeOf(body_graph.ops, o) = "resource"
  /\ \E o \in TensorsOf(body_graph, "body") : body_graph.ops[o.op].type = "Identity"
  /\ \E o \in TensorsOf(body_graph, "body") : get_accumulator(body_graph, "body", o) # NoTensor
  /\ get_intermediates(body_graph, "body") # <<>>

\* The loop variables of the forward While op that are accumulators.
ForwardAccumulators ==
  { i \in DOMAIN WhileInputs : outer_ops[WhileInputs[i].op].type = "EmptyTensorList" }

\* The loop variables of the backward While op that are captured accumulators
\* of the forward one.
CapturedAccumulators ==
  { j \in DOMAIN outer_ops[grad_while_op].ins :
      /\ outer_ops[grad_while_op].ins[j].op = while_op
      /\ outer_ops[grad_while_op].ins[j].out \in ForwardAccumulators }

\* C18: every accumulator of the forward loop is empty when the loop starts
\* and holds k elements after k invocations of the forward body; every
\* accumulator the backward loop captured holds, after k invocations of the
\* backward body, the elements of the forward loop less k, no pop is applied
\* to an empty list, and every captured accumulator is empty when the backward
\* loop ends.
AccumulatorLength ==
  /\ pc \in {"forward", "backward", "done"} =>
       \A i \in ForwardAccumulators :
         /\ fwd_vals[i].k = "list"
         /\ Len(fwd_vals[i].l) = fwd_iters
  /\ pc \in {"backward", "done"} =>
       /\ bwd_iters <= fwd_iters
       /\ \A j \in CapturedAccumulators :
            /\ bwd_vals[j].k = "list"
            /\ Len(bwd_vals[j].l) = fwd_iters - bwd_iters
            /\ \A i \in PopBacks(body_grad_graph) :
                 body_grad_graph.ops[i].ins[1] = body_grad_graph.inputs[j] =>
                   /\ body_grad_graph.outputs[j] = T("grad", i, 1)
                   /\ Cardinality({ e \in popped : e.val.k = "item"
                                      /\ Lookup(body_grad_graph.indirect_captures, e.of)
                                          = T("grad", i, 2) })
                        = bwd_iters
       /\ Cardinality(CapturedAccumulators) = Cardinality(PopBacks(body_grad_graph))
  /\ \A e \in popped : e.val # Underflow
  /\ pc = "done" => \A j \in CapturedAccumulators : bwd_vals[j] = ListV(<<>>)

\* C18, its case: the forward body ran twice, the backward loop has ended
\* and emptied the two accumulators it captured.
AccumulatorLengthWitness ==
  /\ pc = "done"
  /\ fwd_iters = 2
  /\ bwd_iters = 2
  /\ Cardinality(CapturedAccumulators) = 2
  /\ Cardinality(ForwardAccumulators) > 2
  /\ Cardinality(popped) = 4

====
